---- MODULE Spec2Model ----
(***************************************************************************)
(* Model of the IPMA weather service (src/src/services/ipma.service.ts):   *)
(* the numeric normalizer toNumber, the Haversine calculateDistance, the   *)
(* nearest-valid-station scan findClosestStation and the aggregator        *)
(* fetchCurrentTemps with its single network request.                      *)
(*                                                                         *)
(* JavaScript values are records [t, n, s]: t is the type tag, n the       *)
(* integer mantissa of a finite number, s the characters of a string.      *)
(* Temperatures are held in thousandths of a degree Celsius, coordinates   *)
(* in 1e-4 degree, trigonometric quantities in fixed point with unit       *)
(* 1/FX, distances in 1e-4 km.                                             *)
(***************************************************************************)
EXTENDS Integers, Sequences, FiniteSets, TLC

(* ---------------------------- bounds ----------------------------------- *)

\* longest list of requested cities
MaxCities == 2

\* longest list of stations in a fetched payload
MaxStations == 2

\* longest list of candidates handed to findClosestStation on its own
MaxCandidates == 3

\* longest string handed to toNumber on its own
MaxStrLen == 3

\* longest list of daily entries in a forecast payload
MaxEntries == 2

\* largest magnitude, in thousandths of a degree, of the values given to a
\* newly created temperature value element
MaxShown == 300

\* most calls of refresh() on one pt-weather element
MaxRefreshes == 3

\* most times one pt-weather element is connected
MaxRenders == 2

(* ------------------------- JavaScript values --------------------------- *)

Num(k) == [t |-> "number", n |-> k, s |-> << >>]

NaN == [t |-> "nan", n |-> 0, s |-> << >>]

PosInf == [t |-> "inf", n |-> 1, s |-> << >>]

NegInf == [t |-> "inf", n |-> -1, s |-> << >>]

Str(chars) == [t |-> "string", n |-> 0, s |-> chars]

Null == [t |-> "null", n |-> 0, s |-> << >>]

Undefined == [t |-> "undefined", n |-> 0, s |-> << >>]

\* true is 1 and false is 0
Bool(b) == [t |-> "boolean", n |-> IF b THEN 1 ELSE 0, s |-> << >>]

\* a plain object, such as {}
Object == [t |-> "object", n |-> 0, s |-> << >>]

\* typeof v === 'number'
IsNumberType(v) == v.t \in {"number", "nan", "inf"}

\* v is a number and neither NaN nor an infinity
IsFiniteNumber(v) == v.t = "number"

\* a < b on JavaScript numbers: false as soon as one side is NaN
LessThan(a, b) ==
  CASE a.t = "nan" \/ b.t = "nan" -> FALSE
    [] a.t = "inf" /\ b.t = "inf" -> a.n < b.n
    [] a.t = "inf" -> a.n < 0
    [] b.t = "inf" -> b.n > 0
    [] OTHER -> a.n < b.n

(* --------------------- Number(string) conversion ----------------------- *)

\* one temperature unit of the model: thousandths of a degree
Milli == 1000

Digits == <<"0", "1", "2", "3", "4", "5", "6", "7", "8", "9">>

IsDigit(c) == \E d \in 1..10 : Digits[d] = c

DigitValue(c) == (CHOOSE d \in 1..10 : Digits[d] = c) - 1

IsWhite(c) == c \in {" ", "\t", "\n"}

RECURSIVE TrimLeft(_)
TrimLeft(s) ==
  IF s # << >> /\ IsWhite(Head(s)) THEN TrimLeft(Tail(s)) ELSE s

RECURSIVE TrimRight(_)
TrimRight(s) ==
  IF s # << >> /\ IsWhite(s[Len(s)])
  THEN TrimRight(SubSeq(s, 1, Len(s) - 1))
  ELSE s

AllDigits(s) == \A i \in 1..Len(s) : IsDigit(s[i])

\* value of a run of digits, most significant first
RECURSIVE DigitsValue(_)
DigitsValue(s) ==
  IF s = << >> THEN 0
  ELSE DigitsValue(SubSeq(s, 1, Len(s) - 1)) * 10 + DigitValue(s[Len(s)])

\* a fraction of at most three digits, in thousandths
FractionValue(s) ==
  CASE Len(s) = 0 -> 0
    [] Len(s) = 1 -> DigitsValue(s) * 100
    [] Len(s) = 2 -> DigitsValue(s) * 10
    [] OTHER -> DigitsValue(SubSeq(s, 1, 3))

DotPositions(s) == {i \in 1..Len(s) : s[i] = "."}

\* an unsigned decimal literal: digits, digits.digits, digits. or .digits
UnsignedDecimal(s) ==
  LET dots == DotPositions(s)
  IN IF s = << >> THEN NaN
     ELSE IF dots = {} THEN
       IF AllDigits(s) THEN Num(DigitsValue(s) * Milli) ELSE NaN
     ELSE IF Cardinality(dots) > 1 THEN NaN
     ELSE LET d == CHOOSE i \in dots : TRUE
              ip == SubSeq(s, 1, d - 1)
              fp == SubSeq(s, d + 1, Len(s))
          IN IF AllDigits(ip) /\ AllDigits(fp) /\ Len(ip) + Len(fp) > 0
             THEN Num(DigitsValue(ip) * Milli + FractionValue(fp))
             ELSE NaN

InfinityWord == <<"I", "n", "f", "i", "n", "i", "t", "y">>

Negate(v) ==
  CASE v.t = "number" -> Num(0 - v.n)
    [] v.t = "inf" -> [v EXCEPT !.n = 0 - v.n]
    [] OTHER -> v

\* Number(s) for a string s: blank is 0, a signed decimal literal or
\* Infinity is its value, anything else is NaN
StringToNumber(chars) ==
  LET s == TrimRight(TrimLeft(chars))
      signed == s # << >> /\ Head(s) \in {"+", "-"}
      body == IF signed THEN Tail(s) ELSE s
      mag == IF body = InfinityWord THEN PosInf ELSE UnsignedDecimal(body)
  IN IF s = << >> THEN Num(0)
     ELSE IF signed /\ Head(s) = "-" THEN Negate(mag)
     ELSE mag

\* ToNumber coercion applied by the global isFinite
CoerceToNumber(v) ==
  CASE IsNumberType(v) -> v
    [] v.t = "string" -> StringToNumber(v.s)
    [] v.t = "null" -> Num(0)
    [] v.t = "boolean" -> Num(v.n * Milli)
    [] OTHER -> NaN

\* global isFinite(v): coerces first
isFinite(v) == IsFiniteNumber(CoerceToNumber(v))

\* Number.isFinite(v): no coercion
NumberIsFinite(v) == IsFiniteNumber(v)

\* the provider's "no data" measurement, -99.0
Sentinel == Num(-99 * Milli)

\* variant: the two finiteness tests are missing
toNumberUnchecked(n) ==
  IF IsNumberType(n) THEN n
  ELSE IF n.t = "string" THEN StringToNumber(n.s)
  ELSE Null

\* variant: only numbers are accepted, a numeric string gives null
toNumberNumbersOnly(n) ==
  IF IsNumberType(n) /\ isFinite(n) THEN n ELSE Null

toNumber(n) ==
  IF IsNumberType(n) /\ isFinite(n) THEN n
  ELSE IF n.t = "string" THEN
    LET v == StringToNumber(n.s)
    IN IF NumberIsFinite(v) THEN v ELSE Null
  ELSE Null

(* ----------------- fixed-point arithmetic for the Haversine ------------ *)

\* unit of the fixed-point reals: 1/FX
FX == 10000

\* Math.PI in thousandths
PiMilli == 3142

\* division rounding toward zero, so that negation commutes with it
TruncDiv(a, b) ==
  IF a >= 0 THEN a \div b ELSE 0 - ((0 - a) \div b)

\* product of two fixed-point reals
FxMul(a, b) == TruncDiv(a * b, FX)

\* x * Math.PI / 180 for x in 1e-4 degree, as a fixed-point angle in radians
DegToRad(x) == TruncDiv(x * PiMilli, 180 * 1000)

\* Math.sin by its Taylor polynomial up to x^5
Sin(x) ==
  LET x2 == FxMul(x, x)
      x3 == FxMul(x2, x)
      x5 == FxMul(x3, x2)
  IN x - TruncDiv(x3, 6) + TruncDiv(x5, 120)

\* Math.cos by its Taylor polynomial up to x^6
Cos(x) ==
  LET x2 == FxMul(x, x)
      x4 == FxMul(x2, x2)
      x6 == FxMul(x4, x2)
  IN FX - TruncDiv(x2, 2) + TruncDiv(x4, 24) - TruncDiv(x6, 720)

RECURSIVE SqrtIter(_, _)
SqrtIter(n, r) ==
  LET next == (r + (n \div r)) \div 2
  IN IF next >= r THEN r ELSE SqrtIter(n, next)

\* Math.sqrt of a quantity with unit 1/FX^2, result with unit 1/FX
Sqrt(n) == IF n = 0 THEN 0 ELSE SqrtIter(n, FX)

\* arctangent of t in [0, 1] by its Taylor polynomial up to t^7
ArcTan(t) ==
  LET t2 == FxMul(t, t)
      t3 == FxMul(t2, t)
      t5 == FxMul(t3, t2)
      t7 == FxMul(t5, t2)
  IN t - TruncDiv(t3, 3) + TruncDiv(t5, 5) - TruncDiv(t7, 7)

\* Math.atan2(y, x) for y >= 0 and x >= 0
ArcTan2(y, x) ==
  IF y = 0 THEN 0
  ELSE IF y <= x THEN ArcTan(TruncDiv(y * FX, x))
  ELSE (PiMilli * 10) \div 2 - ArcTan(TruncDiv(x * FX, y))

(* ------------------------------ service -------------------------------- *)

CityNames == {"Lisboa", "Porto", "Coimbra"}

\* [latitude, longitude] in 1e-4 degree
CITY_COORDINATES ==
  [city \in CityNames |->
     CASE city = "Lisboa" -> <<387223, -91393>>
       [] city = "Porto" -> <<411579, -86291>>
       [] city = "Coimbra" -> <<402033, -84103>>]

\* Earth's radius in kilometers
R == 6371

\* variant: the cosine of lat1 taken twice, lat2 left out of the product
calculateDistanceOwnCosine(lat1, lon1, lat2, lon2) ==
  IF ~(IsFiniteNumber(lat1) /\ IsFiniteNumber(lon1)
       /\ IsFiniteNumber(lat2) /\ IsFiniteNumber(lon2))
  THEN NaN
  ELSE
    LET dLat == DegToRad(lat2.n - lat1.n)
        dLon == DegToRad(lon2.n - lon1.n)
        sLat == Sin(TruncDiv(dLat, 2))
        sLon == Sin(TruncDiv(dLon, 2))
        a == sLat * sLat
             + FxMul(FxMul(Cos(DegToRad(lat1.n)), Cos(DegToRad(lat1.n))), sLon)
               * sLon
    IN IF FX * FX - a < 0 THEN NaN
       ELSE LET c == 2 * ArcTan2(Sqrt(a), Sqrt(FX * FX - a))
            IN Num(R * c)

\* variant: the two arguments of Math.atan2 exchanged
calculateDistanceSwappedAtan2(lat1, lon1, lat2, lon2) ==
  IF ~(IsFiniteNumber(lat1) /\ IsFiniteNumber(lon1)
       /\ IsFiniteNumber(lat2) /\ IsFiniteNumber(lon2))
  THEN NaN
  ELSE
    LET dLat == DegToRad(lat2.n - lat1.n)
        dLon == DegToRad(lon2.n - lon1.n)
        sLat == Sin(TruncDiv(dLat, 2))
        sLon == Sin(TruncDiv(dLon, 2))
        a == sLat * sLat
             + FxMul(FxMul(Cos(DegToRad(lat1.n)), Cos(DegToRad(lat2.n))), sLon)
               * sLon
    IN IF FX * FX - a < 0 THEN NaN
       ELSE LET c == 2 * ArcTan2(Sqrt(FX * FX - a), Sqrt(a))
            IN Num(R * c)

\* Haversine distance; the arguments are JavaScript values, the result is a
\* JavaScript number in 1e-4 km (NaN as soon as an argument is not a finite
\* number, or when 1 - a is negative)
calculateDistance(lat1, lon1, lat2, lon2) ==
  IF ~(IsFiniteNumber(lat1) /\ IsFiniteNumber(lon1)
       /\ IsFiniteNumber(lat2) /\ IsFiniteNumber(lon2))
  THEN NaN
  ELSE
    LET dLat == DegToRad(lat2.n - lat1.n)
        dLon == DegToRad(lon2.n - lon1.n)
        sLat == Sin(TruncDiv(dLat, 2))
        sLon == Sin(TruncDiv(dLon, 2))
        a == sLat * sLat
             + FxMul(FxMul(Cos(DegToRad(lat1.n)), Cos(DegToRad(lat2.n))), sLon)
               * sLon
    IN IF FX * FX - a < 0 THEN NaN
       ELSE LET c == 2 * ArcTan2(Sqrt(a), Sqrt(FX * FX - a))
            IN Num(R * c)

\* element i of a JavaScript array, undefined past its end
ArrayAt(arr, i) == IF i <= Len(arr) THEN Num(arr[i]) ELSE Undefined

\* a station feature: geometry.coordinates is [longitude, latitude]
Station(coords, temperatura, time) ==
  [geometry |-> [defined |-> TRUE, coordinates |-> coords],
   properties |-> [defined |-> TRUE, temperatura |-> temperatura, time |-> time]]

\* reading station.geometry.coordinates or station.properties.temperatura
\* throws a TypeError when the object read from is missing
StationThrows(station) ==
  ~station.geometry.defined \/ ~station.properties.defined

\* variant: only the non-finite test, the sentinel test is missing
SkipsStationNoSentinel(station) ==
  ~isFinite(station.properties.temperatura)

\* variant: only the sentinel test, the non-finite test is missing
SkipsStationNoFinite(station) ==
  station.properties.temperatura = Sentinel

\* lines 54-56: the station is skipped
SkipsStation(station) ==
  station.properties.temperatura = Sentinel
  \/ ~isFinite(station.properties.temperatura)

\* variant: compared with Infinity, not with the smallest distance so far
IsCloserThanInfinity(distance, minDistance) == LessThan(distance, PosInf)

\* variant: <= in place of <
IsCloserOrEqual(distance, minDistance) ==
  LessThan(distance, minDistance) \/ (distance.t = "number" /\ distance = minDistance)

\* line 59: the station replaces the closest one so far
IsCloser(distance, minDistance) == LessThan(distance, minDistance)

\* the loop of findClosestStation from station i on; closestStation is the
\* index of the closest station so far (0 for null)
RECURSIVE ScanStations(_, _, _, _, _)
ScanStations(city, observations, i, closestStation, minDistance) ==
  IF i > Len(observations)
  THEN [threw |-> FALSE, closestStation |-> closestStation]
  ELSE
    LET station == observations[i]
    IN IF StationThrows(station)
       THEN [threw |-> TRUE, closestStation |-> 0]
       ELSE IF SkipsStation(station)
       THEN ScanStations(city, observations, i + 1, closestStation, minDistance)
       ELSE
         LET cityLat == Num(CITY_COORDINATES[city][1])
             cityLon == Num(CITY_COORDINATES[city][2])
             stationLon == ArrayAt(station.geometry.coordinates, 1)
             stationLat == ArrayAt(station.geometry.coordinates, 2)
             distance == calculateDistance(cityLat, cityLon, stationLat, stationLon)
         IN IF IsCloser(distance, minDistance)
            THEN ScanStations(city, observations, i + 1, i, distance)
            ELSE ScanStations(city, observations, i + 1, closestStation, minDistance)

\* observations is [defined, list]: iterating a missing list throws, and so
\* does destructuring the coordinates of a city CITY_COORDINATES does not have
findClosestStation(city, observations) ==
  IF city \notin DOMAIN CITY_COORDINATES \/ ~observations.defined
  THEN [threw |-> TRUE, closestStation |-> 0]
  ELSE ScanStations(city, observations.list, 1, 0, PosInf)

(* ------------------------- fetched payloads ---------------------------- *)

\* [longitude, latitude] of the stations of the model, in 1e-4 degree
AtLisboa == <<-91393, 387223>>

AtPorto == <<-86291, 411579>>

\* 2.7 degrees (about 300 km) north of Lisboa
NorthOfLisboa == <<-91393, 414223>>

\* 2.7 degrees south of Lisboa, as far from it as NorthOfLisboa
SouthOfLisboa == <<-91393, 360223>>

Noon == Str(<<"1", "2", ":", "0", "0">>)

Afternoon == Str(<<"1", "4", ":", "3", "0">>)

StationX == Station(AtLisboa, Num(25 * Milli), Noon)

StationY == Station(AtLisboa, Sentinel, Afternoon)

StationZ == Station(NorthOfLisboa, Num(30 * Milli), Afternoon)

\* a feature without geometry
NoGeometry ==
  [geometry |-> [defined |-> FALSE, coordinates |-> << >>],
   properties |-> [defined |-> TRUE, temperatura |-> Num(25 * Milli), time |-> Noon]]

\* a feature without properties
NoProperties ==
  [geometry |-> [defined |-> TRUE, coordinates |-> AtLisboa],
   properties |-> [defined |-> FALSE, temperatura |-> Undefined, time |-> Undefined]]

\* a valid station at Lisboa's coordinates, as close as StationX
StationTie == Station(AtLisboa, Num(30 * Milli), Afternoon)

\* a valid station as far from Lisboa as StationZ
StationSouth == Station(SouthOfLisboa, Num(18 * Milli), Noon)

StationNaN == Station(AtPorto, NaN, Noon)

\* the sentinel as a string
StationStringSentinel == Station(AtLisboa, Str(<<"-", "9", "9", ".", "0">>), Noon)

\* a valid measurement as a string
StationString == Station(AtPorto, Str(<<"2", "8", ".", "6">>), Afternoon)

StationNull == Station(AtLisboa, Null, Noon)

\* geometry.coordinates is an empty array
StationNoCoordinates == Station(<< >>, Num(25 * Milli), Noon)

\* the stations a fetched payload is made of
FetchedStations ==
  { StationX, StationY, StationZ, StationNaN, StationStringSentinel,
    StationString, StationNull, NoGeometry, NoProperties }

StationLists == UNION {[1..n -> FetchedStations] : n \in 0..MaxStations}

\* the candidates findClosestStation is applied to on its own
CandidateStations ==
  { StationX, StationY, StationZ, StationTie, StationSouth, StationNaN,
    StationStringSentinel, StationNull, StationNoCoordinates, NoGeometry }

CandidateLists == UNION {[1..n -> CandidateStations] : n \in 0..MaxCandidates}

\* the parsed body: null, an object without features, or a feature collection
NullPayload ==
  [isObject |-> FALSE, features |-> [defined |-> FALSE, list |-> << >>]]

NoFeaturesPayload ==
  [isObject |-> TRUE, features |-> [defined |-> FALSE, list |-> << >>]]

FeatureCollection(list) ==
  [isObject |-> TRUE, features |-> [defined |-> TRUE, list |-> list]]

Payloads ==
  {NullPayload, NoFeaturesPayload} \cup {FeatureCollection(l) : l \in StationLists}

CityLists == UNION {[1..n -> CityNames] : n \in 0..MaxCities}

\* a name outside CityName, which the compiled code does not reject
UnsupportedCity == "Faro"

\* the lists that request the unsupported name, alone or with other cities
UntypedCityLists ==
  {list \in UNION {[1..n -> CityNames \cup {UnsupportedCity}] : n \in 1..MaxCities} :
     \E i \in 1..Len(list) : list[i] = UnsupportedCity}

(* ----------------------------- state ----------------------------------- *)

VARIABLES
  pc,            \* where the call of fetchCurrentTemps stands
  cities,        \* its argument
  result,        \* its local record, returned at the end
  outcome,       \* how the promise it returned settled
  fetchStatus,   \* how fetch() settled
  jsonStatus,    \* how res.json() settled
  observations,  \* the payload fetchObservations returned
  fetchCalls,    \* the requests issued by the current call
  resolver,      \* a call of findClosestStation on its own: its arguments
                 \* and what it returned
  normalizer,    \* a call of toNumber on its own, and one more on its result
  haversine,     \* calls of calculateDistance on its own for two points
  weather,       \* a pt-weather element: what it displays and its calls of
                 \* refresh()
  forecast,      \* the per-city forecast responses fed to the element, and
                 \* the record the forecast variant made of them
  display,       \* a displayed temperature value element and the calls
                 \* made on it
  llm,           \* a call of LLMService.callLLM: its options, its request
                 \* and its response
  textLog,       \* a text-log element
  chat,          \* a chat-ai element, its text-log and its calls of
                 \* handleUserMessage
  prompt         \* a user-prompt element, its input and its button

vars == <<pc, cities, result, outcome, fetchStatus, jsonStatus, observations,
          fetchCalls, resolver, normalizer, haversine, weather, forecast,
          display, llm, textLog, chat, prompt>>

\* the functions called on their own and the element, all outside the call
\* of fetchCurrentTemps that the variables above follow step by step
aside == <<resolver, normalizer, haversine, weather, forecast, display, llm,
           textLog, chat, prompt>>

service == <<pc, cities, result, outcome, fetchStatus, jsonStatus, observations,
             fetchCalls>>

ObservationUrl == "https://api.ipma.pt/open-data/observation/meteorology/stations/obs-surface.geojson"

\* variant: the literal of Coimbra copied from Porto's without renaming
DefaultEntryCopyPaste(city) ==
  [city |-> IF city = "Coimbra" THEN "Porto" ELSE city, temperature |-> Null]

\* lines 79-83
DefaultEntry(city) == [city |-> city, temperature |-> Null]

DefaultResult == [city \in CityNames |-> DefaultEntry(city)]

\* variant: no test at all before the entry is stored
AcceptsAnyTemperature(temperature) == TRUE

\* variant: the comparison with -99.0 is missing
AcceptsTemperatureNoSentinel(temperature) == temperature # Null

\* line 95: the normalized measurement is stored
AcceptsTemperature(temperature) ==
  temperature # Null /\ temperature # Sentinel

\* variant: no try/catch around the body, the exception leaves the loop
ProcessCityNoCatch(acc, city, payload) ==
  LET found == IF payload.isObject
               THEN findClosestStation(city, payload.features)
               ELSE [threw |-> TRUE, closestStation |-> 0]
  IN IF found.threw THEN [acc EXCEPT !.threw = TRUE]
     ELSE IF found.closestStation # 0 THEN
       LET closestStation == payload.features.list[found.closestStation]
           temperature == toNumber(closestStation.properties.temperatura)
       IN IF temperature # Null /\ temperature # Sentinel
          THEN [acc EXCEPT !.result[city] =
                  [city |-> city,
                   temperature |-> temperature,
                   observedAt |-> closestStation.properties.time]]
          ELSE acc
     ELSE acc

\* lines 91-105: the body of the loop for one city, with its own try/catch;
\* acc is [threw, result]
ProcessCity(acc, city, payload) ==
  LET found == IF payload.isObject
               THEN findClosestStation(city, payload.features)
               ELSE [threw |-> TRUE, closestStation |-> 0]
  IN IF found.threw THEN acc
     ELSE IF found.closestStation # 0 THEN
       LET closestStation == payload.features.list[found.closestStation]
           temperature == toNumber(closestStation.properties.temperatura)
       IN IF AcceptsTemperature(temperature)
          THEN [acc EXCEPT !.result[city] =
                  [city |-> city,
                   temperature |-> temperature,
                   observedAt |-> closestStation.properties.time]]
          ELSE acc
     ELSE acc

SupportedOrder == <<"Lisboa", "Porto", "Coimbra">>

\* variant: the loop runs over every supported city, not the requested ones
RECURSIVE ProcessCitiesAll(_, _, _, _)
ProcessCitiesAll(acc, list, i, payload) ==
  IF i > Len(SupportedOrder) \/ acc.threw THEN acc
  ELSE ProcessCitiesAll(ProcessCity(acc, SupportedOrder[i], payload), list, i + 1, payload)

\* variant: the loop is left at the first city that gets no temperature
RECURSIVE ProcessCitiesUntilNull(_, _, _, _)
ProcessCitiesUntilNull(acc, list, i, payload) ==
  IF i > Len(list) \/ acc.threw THEN acc
  ELSE LET next == ProcessCity(acc, list[i], payload)
       IN IF next.result[list[i]].temperature = Null THEN next
          ELSE ProcessCitiesUntilNull(next, list, i + 1, payload)

\* lines 90-106: the loop over the requested cities, left at the first
\* exception that escapes the body
RECURSIVE ProcessCities(_, _, _, _)
ProcessCities(acc, list, i, payload) ==
  IF i > Len(list) \/ acc.threw THEN acc
  ELSE ProcessCities(ProcessCity(acc, list[i], payload), list, i + 1, payload)

\* variant: no outer catch, what escaped rejects the returned promise
SettleAfterUncaught(acc) == IF acc.threw THEN "rejected" ELSE "fulfilled"

\* lines 107-111: the outer catch swallows what escaped, result is returned
SettleAfter(acc) == "fulfilled"

NoReturn == [threw |-> FALSE, closestStation |-> 0]

NoNormalizerCall == [state |-> "none"]

NoHaversineCall == [state |-> "none"]

\* a pt-weather element that was created and never connected
NoWeather ==
  [rendered |-> FALSE, renders |-> 0, status |-> "",
   shown |-> [city \in CityNames |-> Null], refreshes |-> << >>,
   last |-> [refresh |-> 0, net |-> "none", render |-> 0]]

NoForecast == [state |-> "none"]

NoDisplay == [state |-> "none"]

NoLLMCall == [state |-> "idle"]

NoTextLog == [state |-> "none"]

NoChat == [state |-> "none"]

NoPrompt == [state |-> "none"]

NoResolverCall ==
  [state |-> "unused", city |-> "Lisboa", observations |-> << >>, returned |-> NoReturn]

Init ==
  /\ pc = "idle"
  /\ cities = << >>
  /\ result = DefaultResult
  /\ outcome = "none"
  /\ fetchStatus = "none"
  /\ jsonStatus = "none"
  /\ observations = NullPayload
  /\ fetchCalls = << >>
  /\ resolver = NoResolverCall
  /\ normalizer = NoNormalizerCall
  /\ haversine = NoHaversineCall
  /\ weather = NoWeather
  /\ forecast = NoForecast
  /\ display = NoDisplay
  /\ llm = NoLLMCall
  /\ textLog = NoTextLog
  /\ chat = NoChat
  /\ prompt = NoPrompt

\* variant: one request per requested city instead of one for all
CallPerCity(list) ==
  /\ pc = "idle"
  /\ pc' = "fetching"
  /\ cities' = list
  /\ result' = DefaultResult
  /\ outcome' = "pending"
  /\ fetchStatus' = "pending"
  /\ jsonStatus' = "none"
  /\ observations' = NullPayload
  /\ fetchCalls' = [i \in 1..Len(list) |->
                      [url |-> ObservationUrl, cache |-> "no-store"]]
  /\ UNCHANGED aside

\* variant: fetchObservations is not awaited, the defaults are returned at once
CallNotAwaited(list) ==
  /\ pc = "idle"
  /\ pc' = "fetching"
  /\ cities' = list
  /\ result' = DefaultResult
  /\ outcome' = "fulfilled"
  /\ fetchStatus' = "pending"
  /\ jsonStatus' = "none"
  /\ observations' = NullPayload
  /\ fetchCalls' = <<[url |-> ObservationUrl, cache |-> "no-store"]>>
  /\ UNCHANGED aside

\* fetchCurrentTemps(list) up to its suspension in fetch()
Call(list) ==
  /\ pc = "idle"
  /\ pc' = "fetching"
  /\ cities' = list
  /\ result' = DefaultResult
  /\ outcome' = "pending"
  /\ fetchStatus' = "pending"
  /\ jsonStatus' = "none"
  /\ observations' = NullPayload
  /\ fetchCalls' = <<[url |-> ObservationUrl, cache |-> "no-store"]>>
  /\ UNCHANGED aside

\* fetch() rejects: the error reaches the outer catch
FetchRejects ==
  /\ pc = "fetching"
  /\ pc' = "done"
  /\ fetchStatus' = "rejected"
  /\ outcome' = SettleAfter([threw |-> TRUE, result |-> result])
  /\ UNCHANGED <<cities, result, jsonStatus, observations, fetchCalls, aside>>

\* variant: the response is parsed without looking at res.ok
FetchRespondsIgnoresOk(ok) ==
  /\ pc = "fetching"
  /\ pc' = "parsing"
  /\ fetchStatus' = IF ok THEN "ok" ELSE "notOk"
  /\ jsonStatus' = "pending"
  /\ UNCHANGED <<cities, result, outcome, observations, fetchCalls, aside>>

\* fetch() resolves with a response; a response that is not ok makes
\* fetchObservations throw, an ok one is parsed
FetchResponds(ok) ==
  /\ pc = "fetching"
  /\ IF ok
     THEN /\ pc' = "parsing"
          /\ fetchStatus' = "ok"
          /\ jsonStatus' = "pending"
          /\ UNCHANGED outcome
     ELSE /\ pc' = "done"
          /\ fetchStatus' = "notOk"
          /\ outcome' = SettleAfter([threw |-> TRUE, result |-> result])
          /\ UNCHANGED jsonStatus
  /\ UNCHANGED <<cities, result, observations, fetchCalls, aside>>

\* res.json() rejects
JsonRejects ==
  /\ pc = "parsing"
  /\ pc' = "done"
  /\ jsonStatus' = "rejected"
  /\ outcome' = SettleAfter([threw |-> TRUE, result |-> result])
  /\ UNCHANGED <<cities, result, fetchStatus, observations, fetchCalls, aside>>

\* res.json() resolves with some payload: the loop over the cities runs to
\* the return
JsonResolves ==
  /\ pc = "parsing"
  /\ \E payload \in Payloads :
       LET acc == ProcessCities([threw |-> FALSE, result |-> result], cities, 1, payload)
       IN /\ result' = acc.result
          /\ outcome' = SettleAfter(acc)
          /\ observations' = payload
  /\ pc' = "done"
  /\ jsonStatus' = "parsed"
  /\ UNCHANGED <<cities, fetchStatus, fetchCalls, aside>>

Next ==
  \/ \E list \in CityLists : Call(list)
  \/ FetchRejects
  \/ \E ok \in BOOLEAN : FetchResponds(ok)
  \/ JsonRejects
  \/ JsonResolves

Spec == Init /\ [][Next]_vars

\* fetchCurrentTemps called with a name outside CityName among the cities
NextUntyped ==
  \/ \E list \in UntypedCityLists : Call(list)
  \/ FetchRejects
  \/ \E ok \in BOOLEAN : FetchResponds(ok)
  \/ JsonRejects
  \/ JsonResolves

SpecUntyped == Init /\ [][NextUntyped]_vars

\* findClosestStation on its own: any city, any list of candidates
InitResolver ==
  /\ pc = "idle"
  /\ cities = << >>
  /\ result = DefaultResult
  /\ outcome = "none"
  /\ fetchStatus = "none"
  /\ jsonStatus = "none"
  /\ observations = NullPayload
  /\ fetchCalls = << >>
  /\ \E city \in CityNames, list \in CandidateLists :
       resolver = [state |-> "called", city |-> city, observations |-> list,
                   returned |-> NoReturn]
  /\ normalizer = NoNormalizerCall
  /\ haversine = NoHaversineCall
  /\ weather = NoWeather
  /\ forecast = NoForecast
  /\ display = NoDisplay
  /\ llm = NoLLMCall
  /\ textLog = NoTextLog
  /\ chat = NoChat
  /\ prompt = NoPrompt

\* the call runs to its return, or to the exception it throws
Resolve ==
  /\ resolver.state = "called"
  /\ resolver' =
       [resolver EXCEPT
          !.state = "returned",
          !.returned = findClosestStation(resolver.city,
                         [defined |-> TRUE, list |-> resolver.observations])]
  /\ UNCHANGED <<service, normalizer, haversine, weather, forecast, display, llm, textLog, chat, prompt>>

NextResolver == Resolve

SpecResolver == InitResolver /\ [][NextResolver]_vars

\* the fetchCurrentTemps call has not started
ServiceIdle ==
  /\ pc = "idle"
  /\ cities = << >>
  /\ result = DefaultResult
  /\ outcome = "none"
  /\ fetchStatus = "none"
  /\ jsonStatus = "none"
  /\ observations = NullPayload
  /\ fetchCalls = << >>

\* characters of the strings handed to toNumber
Alphabet == {"1", "5", ".", "-", " ", "a"}

Strings == UNION {[1..n -> Alphabet] : n \in 0..MaxStrLen}

\* the values handed to toNumber: numbers finite or not, strings, and the
\* other types an untyped JSON field or a missing field can have
NormalizerInputs ==
  {Num(k) : k \in {0, 42 * Milli, 285 * (Milli \div 10), -99 * Milli, -5 * Milli}}
    \cup {NaN, PosInf, NegInf, Null, Undefined, Bool(TRUE), Bool(FALSE), Object}
    \cup {Str(chars) : chars \in Strings}
    \cup {Str(<<"3", ".", "1", "4">>), Str(<<"a", "b", "c">>),
          Str(<<"-", "9", "9", ".", "0">>), Str(InfinityWord),
          Str(<<"-">> \o InfinityWord)}

\* toNumber on its own: any input
InitNormalizer ==
  /\ ServiceIdle
  /\ resolver = NoResolverCall
  /\ haversine = NoHaversineCall
  /\ weather = NoWeather
  /\ forecast = NoForecast
  /\ \E input \in NormalizerInputs :
       normalizer = [state |-> "called", input |-> input]
  /\ display = NoDisplay
  /\ llm = NoLLMCall
  /\ textLog = NoTextLog
  /\ chat = NoChat
  /\ prompt = NoPrompt

\* the call returns; no operation of lines 24-31 can throw
Normalize ==
  /\ normalizer.state = "called"
  /\ normalizer' = [state |-> "returned", input |-> normalizer.input,
                    returned |-> toNumber(normalizer.input)]
  /\ UNCHANGED <<service, resolver, haversine, weather, forecast, display, llm, textLog, chat, prompt>>

\* toNumber applied to what the first call returned
NormalizeAgain ==
  /\ normalizer.state = "returned"
  /\ normalizer' = [state |-> "renormalized", input |-> normalizer.input,
                    returned |-> normalizer.returned,
                    again |-> toNumber(normalizer.returned)]
  /\ UNCHANGED <<service, resolver, haversine, weather, forecast, display, llm, textLog, chat, prompt>>

NextNormalizer == Normalize \/ NormalizeAgain

SpecNormalizer == InitNormalizer /\ [][NextNormalizer]_vars

\* latitudes and longitudes, in 1e-4 degree, of the three cities and of
\* places where the provider has stations: mainland, Madeira, the Azores
Latitudes == {326000, 360223, 387223, 402033, 411579, 414223}

Longitudes == {-286000, -169000, -91393, -86291, -84103, -60000}

\* a point is <<latitude, longitude>>
Points == Latitudes \X Longitudes

DistanceBetween(a, b) == calculateDistance(Num(a[1]), Num(a[2]), Num(b[1]), Num(b[2]))

\* calculateDistance on its own: any two points
InitDistance ==
  /\ ServiceIdle
  /\ resolver = NoResolverCall
  /\ normalizer = NoNormalizerCall
  /\ weather = NoWeather
  /\ forecast = NoForecast
  /\ \E a \in Points, b \in Points :
       haversine = [state |-> "called", a |-> a, b |-> b]
  /\ display = NoDisplay
  /\ llm = NoLLMCall
  /\ textLog = NoTextLog
  /\ chat = NoChat
  /\ prompt = NoPrompt

\* the distance from a to b, from b to a and from a to itself
Measure ==
  /\ haversine.state = "called"
  /\ haversine' = [state |-> "returned", a |-> haversine.a, b |-> haversine.b,
                   ab |-> DistanceBetween(haversine.a, haversine.b),
                   ba |-> DistanceBetween(haversine.b, haversine.a),
                   aa |-> DistanceBetween(haversine.a, haversine.a)]
  /\ UNCHANGED <<service, resolver, normalizer, weather, forecast, display, llm, textLog, chat, prompt>>

NextDistance == Measure

SpecDistance == InitDistance /\ [][NextDistance]_vars

(* ----------------------------- pt-weather ------------------------------ *)

\* the status text of render(); its last character in the source is the
\* single character U+2026, written here as three dots
Loading == "Loading..."

\* this.cities
WeatherCities == <<"Lisboa", "Porto", "Coimbra">>

\* payloads fetched for the element: not an object, without features,
\* without stations, with valid stations, with none valid, with a malformed
\* one, and with a string sentinel that hides the valid station from Lisboa
WeatherPayloads ==
  {NullPayload, NoFeaturesPayload}
    \cup {FeatureCollection(l) :
            l \in {<< >>, <<StationX>>, <<StationY>>, <<StationString>>,
                   <<StationX, StationString>>, <<StationY, StationZ>>,
                   <<StationStringSentinel, StationString>>,
                   <<NoGeometry, StationX>>, <<StationX, NoGeometry>>}}

\* how the network request of one call of fetchCurrentTemps ends
NetworkOutcomes ==
  {[kind |-> k, payload |-> NullPayload] : k \in {"rejected", "notOk", "jsonRejected"}}
    \cup {[kind |-> "parsed", payload |-> p] : p \in WeatherPayloads}

\* a whole call of fetchCurrentTemps(list) whose request ends as net: how the
\* promise settles and the record it carries
fetchCurrentTemps(list, net) ==
  LET start == [threw |-> FALSE, result |-> DefaultResult]
      acc == IF net.kind = "parsed"
             THEN ProcessCities(start, list, 1, net.payload)
             ELSE [start EXCEPT !.threw = TRUE]
  IN [outcome |-> SettleAfter(acc), data |-> acc.result]

\* data[city]?.temperature ?? null
TemperatureOf(data, city) ==
  IF data[city].temperature.t \in {"null", "undefined"} THEN Null
  ELSE data[city].temperature

\* variant: every city must have a value, not at least one
RefreshStatusAllCities(data) ==
  IF \A i \in 1..Len(WeatherCities) :
       LET t == TemperatureOf(data, WeatherCities[i])
       IN t # Null /\ isFinite(t)
  THEN "Updated now" ELSE "No data available"

\* lines 55-62: any is set by a city with a finite temperature
RefreshStatus(data) ==
  IF \E i \in 1..Len(WeatherCities) :
       LET t == TemperatureOf(data, WeatherCities[i])
       IN t # Null /\ isFinite(t)
  THEN "Updated now" ELSE "No data available"

\* a pt-weather element on its own
InitWeather ==
  /\ ServiceIdle
  /\ resolver = NoResolverCall
  /\ normalizer = NoNormalizerCall
  /\ haversine = NoHaversineCall
  /\ weather = NoWeather
  /\ forecast = NoForecast
  /\ display = NoDisplay
  /\ llm = NoLLMCall
  /\ textLog = NoTextLog
  /\ chat = NoChat
  /\ prompt = NoPrompt

\* connectedCallback: render() and then refresh() up to its await
Connect ==
  /\ weather.renders < MaxRenders
  /\ Len(weather.refreshes) < MaxRefreshes
  /\ weather' = [weather EXCEPT
                   !.rendered = TRUE,
                   !.renders = @ + 1,
                   !.status = Loading,
                   !.shown = [city \in CityNames |-> Null],
                   !.refreshes = Append(@, "waiting")]
  /\ UNCHANGED <<service, resolver, normalizer, haversine, forecast, display, llm, textLog, chat, prompt>>

\* refresh() called by the page, up to its await
Refresh ==
  /\ Len(weather.refreshes) < MaxRefreshes
  /\ weather' = [weather EXCEPT !.refreshes = Append(@, "waiting")]
  /\ UNCHANGED <<service, resolver, normalizer, haversine, forecast, display, llm, textLog, chat, prompt>>

\* what the call fetchCurrentTemps(this.cities) of a refresh can give: how
\* its request ended, with how the call settled on that
RefreshOutcomes ==
  {[net |-> net.kind, settled |-> fetchCurrentTemps(WeatherCities, net)] :
     net \in NetworkOutcomes}

\* the call of fetchCurrentTemps awaited by refresh i settles and refresh i
\* runs to its end; without a render there is no cityRefs entry and no
\* statusEl, so the body throws, the catch throws and refresh() rejects
RefreshCompletes(i) ==
  /\ weather.refreshes[i] = "waiting"
  /\ \E o \in RefreshOutcomes :
       weather' =
         IF ~weather.rendered
         THEN [weather EXCEPT !.refreshes[i] = "rejected"]
         ELSE IF o.settled.outcome = "fulfilled"
         THEN [weather EXCEPT
                 !.refreshes[i] = "done",
                 !.shown = [city \in CityNames |-> TemperatureOf(o.settled.data, city)],
                 !.status = RefreshStatus(o.settled.data),
                 !.last = [refresh |-> i, net |-> o.net, render |-> weather.renders]]
         ELSE [weather EXCEPT
                 !.refreshes[i] = "done",
                 !.status = "Failed to fetch data",
                 !.last = [refresh |-> i, net |-> o.net, render |-> weather.renders]]
  /\ UNCHANGED <<service, resolver, normalizer, haversine, forecast, display, llm, textLog, chat, prompt>>

NextWeather ==
  \/ Connect
  \/ Refresh
  \/ \E i \in 1..Len(weather.refreshes) : RefreshCompletes(i)

SpecWeather == InitWeather /\ [][NextWeather]_vars

(* ------------------ forecast variant of fetchCurrentTemps -------------- *)

\* The forecast variant is not among the sources: only its test, the
\* declarations of its payload and its caller pt-weather are. It is modelled
\* from the specification: one request per city, a payload with a list of
\* daily entries, the entry whose date starts with today's ISO date or else
\* the first entry, tMax normalized by toNumber, the entry's date as
\* observedAt, null for a city whose request or payload fails.

\* dates are sequences of parts, so that a date with a time of day has the
\* date alone as a prefix
Day21 == <<"2025-09-21">>

Day22 == <<"2025-09-22">>

Day23 == <<"2025-09-23">>

StartsWith(str, prefix) ==
  Len(prefix) <= Len(str) /\ SubSeq(str, 1, Len(prefix)) = prefix

ForecastEntry(date, tMax) == [forecastDate |-> date, tMax |-> tMax]

ForecastEntries ==
  {ForecastEntry(date, tMax) :
     date \in {Day21, Day22 \o <<"T00:00:00">>},
     tMax \in {Str(<<"2", "8", ".", "6">>), Num(225 * (Milli \div 10)),
               Str(<<"a", "b", "c">>)}}

\* the response {} of the test, which has no data
NoForecastData == [defined |-> FALSE, list |-> << >>]

ForecastData(list) == [defined |-> TRUE, list |-> list]

\* the responses for the three cities: any list for Lisboa, nothing or one
\* entry for the other two
ForecastResponses ==
  {[city \in CityNames |->
      CASE city = "Lisboa" -> l
        [] city = "Porto" -> p
        [] city = "Coimbra" -> c] :
     l \in {NoForecastData}
            \cup {ForecastData(list) :
                    list \in UNION {[1..n -> ForecastEntries] : n \in 0..MaxEntries}},
     p \in {NoForecastData,
            ForecastData(<<ForecastEntry(Day21, Num(225 * (Milli \div 10)))>>)},
     c \in {NoForecastData,
            ForecastData(<<ForecastEntry(Day22, Str(<<"2", "4", ".", "2">>))>>)}}

\* the entry for today if there is one, else the first entry
SelectEntry(list, today) ==
  LET matching == {i \in 1..Len(list) : StartsWith(list[i].forecastDate, today)}
  IN IF matching = {} THEN list[1]
     ELSE list[CHOOSE i \in matching : \A j \in matching : i <= j]

\* the entry of one city in the record of the forecast variant
ForecastTemp(city, data, today) ==
  IF ~data.defined \/ data.list = << >>
  THEN DefaultEntry(city)
  ELSE LET entry == SelectEntry(data.list, today)
           temperature == toNumber(entry.tMax)
       IN IF temperature = Null THEN DefaultEntry(city)
          ELSE [city |-> city, temperature |-> temperature,
                observedAt |-> entry.forecastDate]

\* the record of the forecast variant for the requested cities
fetchForecastTemps(list, responses, today) ==
  [city \in CityNames |->
     IF \E i \in 1..Len(list) : list[i] = city
     THEN ForecastTemp(city, responses[city], today)
     ELSE DefaultEntry(city)]

\* a pt-weather element and the forecast responses it will be fed
InitForecast ==
  /\ ServiceIdle
  /\ resolver = NoResolverCall
  /\ normalizer = NoNormalizerCall
  /\ haversine = NoHaversineCall
  /\ weather = NoWeather
  /\ \E responses \in ForecastResponses, today \in {Day21, Day22, Day23} :
       forecast = [state |-> "ready", responses |-> responses, today |-> today]
  /\ display = NoDisplay
  /\ llm = NoLLMCall
  /\ textLog = NoTextLog
  /\ chat = NoChat
  /\ prompt = NoPrompt

\* refresh i of the element gets the record of the forecast variant and
\* runs to its end
ForecastRefreshCompletes(i) ==
  /\ weather.refreshes[i] = "waiting"
  /\ weather.rendered
  /\ LET data == fetchForecastTemps(WeatherCities, forecast.responses, forecast.today)
     IN /\ forecast' = [state |-> "returned", responses |-> forecast.responses,
                        today |-> forecast.today, data |-> data]
        /\ weather' = [weather EXCEPT
                         !.refreshes[i] = "done",
                         !.shown = [city \in CityNames |-> TemperatureOf(data, city)],
                         !.status = RefreshStatus(data),
                         !.last = [refresh |-> i, net |-> "parsed",
                                   render |-> weather.renders]]
  /\ UNCHANGED <<service, resolver, normalizer, haversine, display, llm, textLog, chat, prompt>>

NextForecast ==
  \/ Connect
  \/ \E i \in 1..Len(weather.refreshes) : ForecastRefreshCompletes(i)

SpecForecast == InitForecast /\ [][NextForecast]_vars

(* ------------------- temp-value and city-temp elements ----------------- *)

\* Texts are sequences of characters. The no-data glyph U+2014 is the one
\* element "--", the degree sign U+00B0 of the default unit is "o".
Dash == <<"--">>

SemDados == <<"s", "e", "m", " ", "d", "a", "d", "o", "s">>

DefaultUnit == <<"o", "C">>

Fahrenheit == <<"o", "F">>

RECURSIVE NatToString(_)
NatToString(n) ==
  IF n < 10 THEN <<Digits[n + 1]>>
  ELSE NatToString(n \div 10) \o <<Digits[(n % 10) + 1]>>

\* the decimals of f thousandths, without trailing zeros
FractionToString(f) ==
  LET d1 == Digits[(f \div 100) + 1]
      d2 == Digits[((f \div 10) % 10) + 1]
      d3 == Digits[(f % 10) + 1]
  IN IF f = 0 THEN << >>
     ELSE IF f % 10 # 0 THEN <<".", d1, d2, d3>>
     ELSE IF f % 100 # 0 THEN <<".", d1, d2>>
     ELSE <<".", d1>>

\* String(v) for a JavaScript number; -0 is "0"
NumberToString(v) ==
  CASE v.t = "nan" -> <<"N", "a", "N">>
    [] v.t = "inf" -> (IF v.n < 0 THEN <<"-">> ELSE << >>) \o InfinityWord
    [] OTHER ->
         LET m == IF v.n < 0 THEN 0 - v.n ELSE v.n
         IN (IF v.n < 0 THEN <<"-">> ELSE << >>)
              \o NatToString(m \div Milli) \o FractionToString(m % Milli)

\* variant: the decimals beyond the first are cut off, Math.trunc
MathRoundTimes10Trunc(value) == TruncDiv(value.n, 100)

\* Math.round(value * 10): the nearest integer, a half going up; value is
\* in thousandths, the result counts tenths
MathRoundTimes10(value) == (value.n + 50) \div 100

\* Math.round(value * 10) / 10
Rounded(value) == Num(MathRoundTimes10(value) * 100)

\* an attribute is absent or holds a string
NoAttribute == [present |-> FALSE, chars |-> << >>]

Attribute(chars) == [present |-> TRUE, chars |-> chars]

\* a value element without attributes and without text
BlankElement(tag) ==
  [tag |-> tag, value |-> NoAttribute, unit |-> NoAttribute, text |-> << >>,
   ariaLabel |-> NoAttribute, dataValue |-> NoAttribute]

\* parseValue of temp-value and of city-temp
parseValue(attr) ==
  IF ~attr.present \/ attr.chars = << >> THEN Null
  ELSE LET n == StringToNumber(attr.chars)
       IN IF NumberIsFinite(n) THEN n ELSE Null

\* value != null && isFinite(value)
IsShownValue(value) == value.t \notin {"null", "undefined"} /\ isFinite(value)

\* variant: data-value is left in place when there is no value
ShowKeepsDataValue(el, value, unit) ==
  IF ~IsShownValue(value)
  THEN [el EXCEPT !.text = Dash, !.ariaLabel = Attribute(SemDados)]
  ELSE LET rounded == NumberToString(Rounded(CoerceToNumber(value)))
       IN [el EXCEPT !.text = rounded \o <<" ">> \o unit,
                     !.dataValue = Attribute(rounded),
                     !.ariaLabel = Attribute(rounded \o <<" ">> \o unit)]

\* TemperatureValue.ts lines 32-41 and 70-79: the text and the two
\* attributes written for a value
Show(el, value, unit) ==
  IF ~IsShownValue(value)
  THEN [el EXCEPT !.text = Dash, !.ariaLabel = Attribute(SemDados),
                  !.dataValue = NoAttribute]
  ELSE LET rounded == NumberToString(Rounded(CoerceToNumber(value)))
       IN [el EXCEPT !.text = rounded \o <<" ">> \o unit,
                     !.dataValue = Attribute(rounded),
                     !.ariaLabel = Attribute(rounded \o <<" ">> \o unit)]

\* TempValue.render
RenderTempValue(el) ==
  Show(el, parseValue(el.value), IF el.unit.present THEN el.unit.chars ELSE DefaultUnit)

\* el.setAttribute('value', ...) with the attributeChangedCallback it runs
SetValueAttribute(el, value) ==
  RenderTempValue([el EXCEPT !.value =
     IF IsShownValue(value) THEN Attribute(NumberToString(value)) ELSE Attribute(<< >>)])

\* the unit attribute is set when the unit is not the default one
SetUnitAttribute(el, unit) ==
  IF unit # << >> /\ unit # DefaultUnit
  THEN RenderTempValue([el EXCEPT !.unit = Attribute(unit)])
  ELSE el

createTemperatureValue(value, unit) ==
  SetUnitAttribute(SetValueAttribute(BlankElement("temp-value"), value), unit)

updateTemperatureValue(el, value, unit) ==
  IF el.tag = "temp-value"
  THEN LET valued == SetValueAttribute(el, value)
       IN IF unit # << >> /\ unit # DefaultUnit
          THEN RenderTempValue([valued EXCEPT !.unit = Attribute(unit)])
          ELSE IF valued.unit.present
          THEN RenderTempValue([valued EXCEPT !.unit = NoAttribute])
          ELSE valued
  ELSE Show(el, value, unit)

\* CityTemp.render: the content is rebuilt around a new value element
RenderCityTemp(valueAttr) == createTemperatureValue(parseValue(valueAttr), DefaultUnit)

\* the value attribute createCityTemperature and updateCityTemperature set
CityValueAttribute(temperature) ==
  IF IsShownValue(temperature) THEN Attribute(NumberToString(temperature))
  ELSE Attribute(<< >>)

\* the values a new temp-value element is created with: every thousandth
\* of a degree up to MaxShown on both sides of zero, the values of the tests
\* and the values that are not shown
CreatedValues ==
  {Num(k) : k \in (0 - MaxShown)..MaxShown}
    \cup {Num(20000), Num(21234), Num(19900), Null, NaN, PosInf}

\* the values later calls give
UpdateValues ==
  {Num(21234), Num(19900), Num(28000), Num(250), Num(-250), Num(0),
   Null, Undefined, NaN, NegInf}

Units == {DefaultUnit, Fahrenheit}

Displayed(root, cityAttr, el, value, unit) ==
  [state |-> "shown", root |-> root, cityAttr |-> cityAttr, el |-> el,
   last |-> value, unit |-> unit,
   hadDataValue |-> display.state = "shown" /\ display.el.dataValue.present]

\* a value element on its own, or inside a city-temp element
InitDisplay ==
  /\ ServiceIdle
  /\ resolver = NoResolverCall
  /\ normalizer = NoNormalizerCall
  /\ haversine = NoHaversineCall
  /\ weather = NoWeather
  /\ forecast = NoForecast
  /\ display = NoDisplay
  /\ llm = NoLLMCall
  /\ textLog = NoTextLog
  /\ chat = NoChat
  /\ prompt = NoPrompt

\* createTemperatureValue(value, unit)
CreateValue ==
  /\ display.state = "none"
  /\ \E value \in CreatedValues, unit \in Units :
       display' = Displayed("temp-value", NoAttribute,
                            createTemperatureValue(value, unit), value, unit)
  /\ UNCHANGED <<service, resolver, normalizer, haversine, weather, forecast, llm, textLog, chat, prompt>>

\* updateTemperatureValue(el, value, unit) on a temp-value element
UpdateValue ==
  /\ display.state = "shown"
  /\ display.root = "temp-value"
  /\ \E value \in UpdateValues, unit \in Units :
       display' = Displayed("temp-value", NoAttribute,
                            updateTemperatureValue(display.el, value, unit),
                            value, unit)
  /\ UNCHANGED <<service, resolver, normalizer, haversine, weather, forecast, llm, textLog, chat, prompt>>

\* updateTemperatureValue(el, value, unit) on an element that is not a
\* temp-value, such as a span: lines 69-79
UpdatePlain ==
  /\ IF display.state = "none" THEN TRUE ELSE display.root = "span"
  /\ \E value \in UpdateValues, unit \in Units :
       LET el == IF display.state = "none" THEN BlankElement("span")
                 ELSE display.el
       IN display' = Displayed("span", NoAttribute,
                               updateTemperatureValue(el, value, unit),
                               value, unit)
  /\ UNCHANGED <<service, resolver, normalizer, haversine, weather, forecast, llm, textLog, chat, prompt>>

\* createCityTemperature(city, temperature): the attributes are set, each
\* with a render, connectedCallback renders once more, and the value
\* element is the one of the last render
CreateCity ==
  /\ display.state = "none"
  /\ \E temperature \in UpdateValues :
       LET attr == CityValueAttribute(temperature)
       IN display' = Displayed("city-temp", attr, RenderCityTemp(attr),
                               temperature, DefaultUnit)
  /\ UNCHANGED <<service, resolver, normalizer, haversine, weather, forecast, llm, textLog, chat, prompt>>

\* updateCityTemperature(refs, temperature) on a city-temp element: the
\* attribute is set, the render puts a new value element in place, and that
\* element is updated
UpdateCity ==
  /\ display.state = "shown"
  /\ display.root = "city-temp"
  /\ \E temperature \in UpdateValues :
       LET attr == CityValueAttribute(temperature)
           inner == RenderCityTemp(attr)
       IN display' = Displayed("city-temp", attr,
                               updateTemperatureValue(inner, temperature, DefaultUnit),
                               temperature, DefaultUnit)
  /\ UNCHANGED <<service, resolver, normalizer, haversine, weather, forecast, llm, textLog, chat, prompt>>

NextDisplay ==
  \/ CreateValue
  \/ UpdateValue
  \/ UpdatePlain
  \/ CreateCity
  \/ UpdateCity

SpecDisplay == InitDisplay /\ [][NextDisplay]_vars

(* ------------------------------- callLLM -------------------------------- *)

\* values of a content field, of a question and of an image URL
Text(s) == [t |-> "string", text |-> s]

NullValue == [t |-> "null", text |-> ""]

UndefinedValue == [t |-> "undefined", text |-> ""]

\* JavaScript truthiness of such a value
Truthy(v) == v.t = "string" /\ v.text # ""

\* what is thrown or what a promise rejects with: an Error with its message,
\* or some other value
ErrorOf(message) == [isError |-> TRUE, message |-> message]

NotAnError == [isError |-> FALSE, message |-> ""]

DefaultModel == "mistralai/mistral-small-3.2-24b-instruct:free"

\* a choice of a completion
Choice(hasMessage, content) == [hasMessage |-> hasMessage, content |-> content]

Completion(choices) == [defined |-> TRUE, hasChoices |-> TRUE, choices |-> choices]

\* what chat.completions.create can resolve with
Completions ==
  { [defined |-> FALSE, hasChoices |-> FALSE, choices |-> << >>],
    [defined |-> TRUE, hasChoices |-> FALSE, choices |-> << >>],
    Completion(<< >>),
    Completion(<<Choice(FALSE, UndefinedValue)>>),
    Completion(<<Choice(TRUE, UndefinedValue)>>),
    Completion(<<Choice(TRUE, NullValue)>>),
    Completion(<<Choice(TRUE, Text(""))>>),
    Completion(<<Choice(TRUE, Text("Hello"))>>),
    Completion(<<Choice(TRUE, Text("Hello")), Choice(TRUE, Text("Bye"))>>),
    Completion(<<Choice(TRUE, NullValue), Choice(TRUE, Text("Bye"))>>) }

\* what it can reject with
Rejections ==
  {ErrorOf("API request failed"), ErrorOf("Rate limit exceeded"), ErrorOf(""),
   NotAnError}

LLMOptions ==
  [question : {"", "Hi", "Explain"},
   imageUrl : {UndefinedValue, Text(""), Text("https://example.com/photo.jpg")}]

\* lines 85-103: the one user message of the request
MessagesOf(options) ==
  <<[role |-> "user",
     content |-> IF Truthy(options.imageUrl)
                 THEN <<[type |-> "text", text |-> options.question],
                        [type |-> "image_url", url |-> options.imageUrl.text]>>
                 ELSE <<[type |-> "plain", text |-> options.question]>>]>>

\* lines 120-126: the catch
ResponseOfError(error) ==
  [content |-> "", success |-> FALSE, hasError |-> TRUE,
   error |-> IF error.isError THEN error.message ELSE "Unknown error occurred"]

\* completion.choices[0]?.message?.content
FirstContent(completion) ==
  IF completion.choices = << >> \/ ~completion.choices[1].hasMessage
  THEN UndefinedValue
  ELSE completion.choices[1].content

\* lines 110-119: reading choices of a missing completion, or element 0 of
\* missing choices, throws a TypeError; no content throws an Error; both
\* reach the catch
ResponseOfCompletion(completion) ==
  IF ~completion.defined \/ ~completion.hasChoices
  THEN ResponseOfError(ErrorOf("Cannot read properties of undefined"))
  ELSE IF ~Truthy(FirstContent(completion))
  THEN ResponseOfError(ErrorOf("No response content received from LLM"))
  ELSE [content |-> FirstContent(completion).text, success |-> TRUE,
        hasError |-> FALSE, error |-> ""]

InitLLM ==
  /\ ServiceIdle
  /\ resolver = NoResolverCall
  /\ normalizer = NoNormalizerCall
  /\ haversine = NoHaversineCall
  /\ weather = NoWeather
  /\ forecast = NoForecast
  /\ display = NoDisplay
  /\ llm = NoLLMCall
  /\ textLog = NoTextLog
  /\ chat = NoChat
  /\ prompt = NoPrompt

\* callLLM(options) up to its await of chat.completions.create
CallLLM ==
  /\ llm.state = "idle"
  /\ \E options \in LLMOptions :
       llm' = [state |-> "pending", options |-> options,
               request |-> [model |-> DefaultModel, messages |-> MessagesOf(options)]]
  /\ UNCHANGED <<service, resolver, normalizer, haversine, weather, forecast, display, textLog, chat, prompt>>

\* chat.completions.create rejects
CreateRejects ==
  /\ llm.state = "pending"
  /\ \E error \in Rejections :
       llm' = [state |-> "returned", options |-> llm.options,
               request |-> llm.request,
               settled |-> [kind |-> "rejected", error |-> error],
               promise |-> "fulfilled", response |-> ResponseOfError(error)]
  /\ UNCHANGED <<service, resolver, normalizer, haversine, weather, forecast, display, textLog, chat, prompt>>

\* chat.completions.create resolves
CreateResolves ==
  /\ llm.state = "pending"
  /\ \E completion \in Completions :
       llm' = [state |-> "returned", options |-> llm.options,
               request |-> llm.request,
               settled |-> [kind |-> "resolved", completion |-> completion],
               promise |-> "fulfilled", response |-> ResponseOfCompletion(completion)]
  /\ UNCHANGED <<service, resolver, normalizer, haversine, weather, forecast, display, textLog, chat, prompt>>

NextLLM == CallLLM \/ CreateRejects \/ CreateResolves

SpecLLM == InitLLM /\ [][NextLLM]_vars

(* ------------------------------- text-log ------------------------------- *)

\* the largest max-entries option tried
MaxLimit == 2

\* the largest number of entries a data source is given
MaxLog == 3

\* a log entry; an absent field and an empty one are both "" (the code only
\* tests them for truthiness), an absent id is 0, and the ids addEntry makes
\* up are numbered
LogEntry(question, answer, text, type) ==
  [question |-> question, answer |-> answer, text |-> text, type |-> type,
   id |-> 0]

LogEntries ==
  {LogEntry("Why?", "Because.", "", ""), LogEntry("How?", "", "", ""),
   LogEntry("", "", "Started", "info"), LogEntry("", "", "", "error")}

\* the arrays handed to importLog, setDataSource and createTextLog
RECURSIVE EntryLists(_)
EntryLists(n) ==
  IF n = 0 THEN {<< >>}
  ELSE EntryLists(n - 1) \cup
       {Append(l, e) : l \in {k \in EntryLists(n - 1) : Len(k) = n - 1},
                       e \in LogEntries}

\* parseInt of a text: its leading digits, NaN without any
RECURSIVE LeadingDigits(_)
LeadingDigits(chars) ==
  IF chars # << >> /\ IsDigit(Head(chars))
  THEN <<Head(chars)>> \o LeadingDigits(Tail(chars))
  ELSE << >>

parseInt(chars) ==
  LET text == TrimLeft(chars)
      negative == text # << >> /\ Head(text) = "-"
      digits == LeadingDigits(IF text # << >> /\ Head(text) \in {"-", "+"}
                              THEN Tail(text) ELSE text)
  IN IF digits = << >> THEN NaN
     ELSE Num((IF negative THEN -1 ELSE 1) * DigitsValue(digits) * Milli)

\* the attribute an option of n sets: none for a falsy n
MaxEntriesAttribute(n) ==
  IF n # 0 THEN Attribute(NatToString(n)) ELSE NoAttribute

\* lines 516-521
EntriesToShow(log) ==
  LET maxEntries == parseInt(IF log.maxEntries.present /\ log.maxEntries.chars # << >>
                             THEN log.maxEntries.chars ELSE <<"0">>)
      limit == IF maxEntries.t = "number" THEN maxEntries.n \div Milli ELSE 0
      entries == log.dataSource
  IN IF limit > 0 /\ Len(entries) > limit
     THEN SubSeq(entries, Len(entries) - limit + 1, Len(entries))
     ELSE entries

\* renderEntry: the messages one entry is displayed as
RenderEntry(entry) ==
  IF entry.question # "" /\ entry.answer # ""
  THEN <<[type |-> "question", text |-> entry.question],
         [type |-> "answer", text |-> entry.answer]>>
  ELSE IF entry.question # ""
  THEN <<[type |-> "question", text |-> entry.question]>>
  ELSE IF entry.answer # ""
  THEN <<[type |-> "answer", text |-> entry.answer]>>
  ELSE IF entry.text # "" /\ entry.type # ""
  THEN <<[type |-> entry.type, text |-> entry.text]>>
  ELSE IF entry.type # ""
  THEN <<[type |-> entry.type, text |-> ""]>>
  ELSE << >>

RECURSIVE RenderEntries(_)
RenderEntries(entries) ==
  IF entries = << >> THEN << >>
  ELSE RenderEntry(Head(entries)) \o RenderEntries(Tail(entries))

\* updateDisplay: nothing before the element is connected (no messagesEl)
updateDisplay(log) ==
  IF ~log.connected THEN log
  ELSE [log EXCEPT !.shown = EntriesToShow(log),
                   !.messages = RenderEntries(EntriesToShow(log)),
                   !.count = Len(log.dataSource)]

createTextLog(options) ==
  [state |-> "created", connected |-> FALSE,
   maxEntries |-> MaxEntriesAttribute(options.maxEntries),
   dataSource |-> options.dataSource, lastKnownLength |-> 0,
   shown |-> << >>, messages |-> << >>, count |-> 0, nextId |-> 1]

\* checkForChanges, every 100 ms and once on connection
checkForChanges(log) ==
  IF Len(log.dataSource) # log.lastKnownLength
  THEN updateDisplay([log EXCEPT !.lastKnownLength = Len(log.dataSource)])
  ELSE log

\* connectedCallback: startObserving, then updateDisplay
connectedCallback(log) ==
  updateDisplay(checkForChanges([log EXCEPT !.connected = TRUE]))

setDataSource(log, source) ==
  updateDisplay([log EXCEPT !.dataSource = source,
                            !.lastKnownLength = Len(source)])

addEntry(log, entry) ==
  LET withId == IF entry.id = 0 THEN [entry EXCEPT !.id = log.nextId] ELSE entry
  IN updateDisplay([log EXCEPT !.dataSource = Append(@, withId),
                               !.nextId = IF entry.id = 0 THEN @ + 1 ELSE @])

importLog(log, entries) ==
  updateDisplay([log EXCEPT !.dataSource = entries])

handleClear(log) ==
  updateDisplay([log EXCEPT !.dataSource = << >>, !.lastKnownLength = 0])

\* attributeChangedCallback for max-entries
setMaxEntries(log, n) ==
  IF log.maxEntries = Attribute(NatToString(n)) THEN log
  ELSE updateDisplay([log EXCEPT !.maxEntries = Attribute(NatToString(n))])

InitTextLog ==
  /\ ServiceIdle
  /\ resolver = NoResolverCall
  /\ normalizer = NoNormalizerCall
  /\ haversine = NoHaversineCall
  /\ weather = NoWeather
  /\ forecast = NoForecast
  /\ display = NoDisplay
  /\ llm = NoLLMCall
  /\ textLog \in {createTextLog([maxEntries |-> n, dataSource |-> l]) :
                    n \in 0..MaxLimit, l \in EntryLists(1)}
  /\ chat = NoChat
  /\ prompt = NoPrompt

ConnectTextLog ==
  /\ ~textLog.connected
  /\ textLog' = connectedCallback(textLog)
  /\ UNCHANGED <<service, resolver, normalizer, haversine, weather, forecast, display, llm, chat, prompt>>

AddEntry ==
  /\ Len(textLog.dataSource) < MaxLog
  /\ textLog.nextId <= MaxLog
  /\ \E entry \in LogEntries : textLog' = addEntry(textLog, entry)
  /\ UNCHANGED <<service, resolver, normalizer, haversine, weather, forecast, display, llm, chat, prompt>>

ImportLog ==
  /\ \E entries \in EntryLists(MaxLog - 1) : textLog' = importLog(textLog, entries)
  /\ UNCHANGED <<service, resolver, normalizer, haversine, weather, forecast, display, llm, chat, prompt>>

SetDataSource ==
  /\ \E source \in EntryLists(MaxLog - 1) : textLog' = setDataSource(textLog, source)
  /\ UNCHANGED <<service, resolver, normalizer, haversine, weather, forecast, display, llm, chat, prompt>>

ClearTextLog ==
  /\ textLog.dataSource # << >>
  /\ textLog' = handleClear(textLog)
  /\ UNCHANGED <<service, resolver, normalizer, haversine, weather, forecast, display, llm, chat, prompt>>

CheckForChanges ==
  /\ textLog.connected
  /\ Len(textLog.dataSource) # textLog.lastKnownLength
  /\ textLog' = checkForChanges(textLog)
  /\ UNCHANGED <<service, resolver, normalizer, haversine, weather, forecast, display, llm, chat, prompt>>

SetMaxEntries ==
  /\ \E n \in 0..MaxLimit :
       /\ textLog.maxEntries # Attribute(NatToString(n))
       /\ textLog' = setMaxEntries(textLog, n)
  /\ UNCHANGED <<service, resolver, normalizer, haversine, weather, forecast, display, llm, chat, prompt>>

NextTextLog ==
  \/ ConnectTextLog
  \/ AddEntry
  \/ ImportLog
  \/ SetDataSource
  \/ ClearTextLog
  \/ CheckForChanges
  \/ SetMaxEntries

SpecTextLog == InitTextLog /\ [][NextTextLog]_vars

(* ------------------------------- chat-ai -------------------------------- *)

\* the largest number of user messages handled
MaxCalls == 2

UserMessages == {"Hi", ""}

\* what the callLLM of a handled message settles with: a response of
\* LLMService.callLLM, or a rejection (callLLM replaced by a test double)
ChatOutcomes ==
  {[kind |-> "resolved", response |-> r] :
     r \in {ResponseOfCompletion(Completion(<<Choice(TRUE, Text("Hello"))>>)),
            ResponseOfError(ErrorOf(""))}}
  \cup {[kind |-> "rejected", response |-> ResponseOfError(NotAnError)]}

\* lines 271-277: the text of the 'ai' entry
AiText(settled) ==
  IF settled.kind = "rejected"
  THEN "Sorry, I encountered an error while processing your message."
  ELSE IF settled.response.success THEN settled.response.content
  ELSE "Error: " \o (IF settled.response.hasError /\ settled.response.error # ""
                     THEN settled.response.error
                     ELSE "Failed to get AI response")

\* createChatAI appended to the document: the text-log of the template is
\* connected with it; the max-entries attribute stays on the chat-ai element
createChatAI(options) ==
  [state |-> "connected",
   maxEntries |-> MaxEntriesAttribute(options.maxEntries),
   messageHandler |-> options.onMessage,
   log |-> connectedCallback(createTextLog([maxEntries |-> 0, dataSource |-> << >>])),
   calls |-> << >>, handled |-> << >>, added |-> << >>]

\* addMessage: the entry goes to the text-log; added keeps every entry that
\* was ever appended, with the id it was given
addMessage(c, type, text) ==
  [c EXCEPT !.log = addEntry(@, LogEntry("", "", text, type)),
            !.added = Append(@, [id |-> c.log.nextId, type |-> type, text |-> text])]

\* lines 257-268: handleUserMessage up to its await; a handler that throws
\* makes the promise reject before callLLM is called
handleUserMessage(c, message) ==
  LET logged == addMessage(c, "user", message)
      call == [message |-> message, userEntry |-> c.log.nextId, aiEntry |-> 0,
               promise |-> IF c.messageHandler = "throws" THEN "rejected"
                           ELSE "pending"]
  IN [logged EXCEPT !.calls = Append(@, call),
                    !.handled = IF c.messageHandler = "none" THEN @
                                ELSE Append(@, message)]

\* lines 269-279: the rest of it once callLLM has settled
handleUserMessageResumes(c, i, settled) ==
  LET logged == addMessage(c, "ai", AiText(settled))
  IN [logged EXCEPT !.calls[i].aiEntry = c.log.nextId,
                    !.calls[i].promise = "fulfilled"]

InitChat ==
  /\ ServiceIdle
  /\ resolver = NoResolverCall
  /\ normalizer = NoNormalizerCall
  /\ haversine = NoHaversineCall
  /\ weather = NoWeather
  /\ forecast = NoForecast
  /\ display = NoDisplay
  /\ llm = NoLLMCall
  /\ textLog = NoTextLog
  /\ chat \in {createChatAI([maxEntries |-> n, onMessage |-> h]) :
                 n \in 0..MaxLimit, h \in {"none", "returns", "throws"}}
  /\ prompt = NoPrompt

\* the user-prompt of the chat submits a message
HandleUserMessage ==
  /\ Len(chat.calls) < MaxCalls
  /\ \E message \in UserMessages : chat' = handleUserMessage(chat, message)
  /\ UNCHANGED <<service, resolver, normalizer, haversine, weather, forecast, display, llm, textLog, prompt>>

\* the callLLM of some handled message settles
LLMSettles ==
  /\ \E i \in DOMAIN chat.calls :
       /\ chat.calls[i].promise = "pending"
       /\ \E settled \in ChatOutcomes :
            chat' = handleUserMessageResumes(chat, i, settled)
  /\ UNCHANGED <<service, resolver, normalizer, haversine, weather, forecast, display, llm, textLog, prompt>>

\* addMessage with a greeting, before anything else is logged
AddMessage ==
  /\ chat.added = << >>
  /\ chat' = addMessage(chat, "system", "Welcome")
  /\ UNCHANGED <<service, resolver, normalizer, haversine, weather, forecast, display, llm, textLog, prompt>>

\* importChatLog with a log exported earlier
ImportChatLog ==
  /\ chat.log.dataSource # << >>
  /\ chat' = [chat EXCEPT !.log = importLog(@, <<LogEntry("", "", "Earlier", "system")>>)]
  /\ UNCHANGED <<service, resolver, normalizer, haversine, weather, forecast, display, llm, textLog, prompt>>

NextChat == HandleUserMessage \/ LLMSettles \/ AddMessage \/ ImportChatLog

SpecChat == InitChat /\ [][NextChat]_vars

(* ------------------------------ user-prompt ----------------------------- *)

\* the largest number of submits tried
MaxSubmits == 3

\* what the generic-input holds: its value and what it says of its validity
PromptInputs ==
  {[value |-> "", isValid |-> FALSE], [value |-> "", isValid |-> TRUE],
   [value |-> "Hi", isValid |-> TRUE], [value |-> "Hi", isValid |-> FALSE]}

\* lines 251-263
setLoading(p, loading) ==
  IF loading
  THEN [p EXCEPT !.loading = TRUE, !.buttonDisabled = TRUE]
  ELSE [p EXCEPT !.loading = FALSE,
                 !.buttonDisabled = IF p.disabled THEN @ ELSE FALSE]

\* lines 245-249
updateSubmitButton(p, isValid) ==
  IF ~p.validate.present THEN p ELSE [p EXCEPT !.buttonDisabled = ~isValid]

\* variant: the loading state is only removed when the handler returned
handleSubmitNoFinally(p, validAfterClear) ==
  IF p.handler = "none" THEN [p EXCEPT !.outcomes = Append(@, "ignored")]
  ELSE IF p.validate.present /\ ~p.input.isValid
  THEN [p EXCEPT !.outcomes = Append(@, "refused")]
  ELSE
    LET loading == setLoading(p, TRUE)
        called == [loading EXCEPT !.handlerCalls = Append(@, p.input.value)]
    IN IF p.handler = "throws"
       THEN [called EXCEPT !.outcomes = Append(@, "threw")]
       ELSE [called EXCEPT
               !.input = IF p.clearOnSubmit
                         THEN [value |-> "", isValid |-> validAfterClear]
                         ELSE @,
               !.events = Append(@, [value |-> p.input.value,
                                     isValid |-> p.input.isValid]),
               !.timers = @ + 1,
               !.outcomes = Append(@, "returned")]

\* lines 212-243; outcomes records what became of each submit, and timers
\* counts the setLoading(false) calls scheduled and not yet run. What the
\* input says of its validity once it is cleared is the input's own business.
handleSubmit(p, validAfterClear) ==
  IF p.handler = "none" THEN [p EXCEPT !.outcomes = Append(@, "ignored")]
  ELSE IF p.validate.present /\ ~p.input.isValid
  THEN [p EXCEPT !.outcomes = Append(@, "refused")]
  ELSE
    LET loading == setLoading(p, TRUE)
        called == [loading EXCEPT !.handlerCalls = Append(@, p.input.value)]
    IN IF p.handler = "throws"
       THEN [called EXCEPT !.timers = @ + 1, !.outcomes = Append(@, "threw")]
       ELSE [called EXCEPT
               !.input = IF p.clearOnSubmit
                         THEN [value |-> "", isValid |-> validAfterClear]
                         ELSE @,
               !.events = Append(@, [value |-> p.input.value,
                                     isValid |-> p.input.isValid]),
               !.timers = @ + 1,
               !.outcomes = Append(@, "returned")]

\* a connected user-prompt with its attributes and its buttonOnClick handler
ConnectedPrompt(validate, clearOnSubmit, submitOnEnter, disabled, handler, input) ==
  [state |-> "connected", validate |-> validate,
   clearOnSubmit |-> clearOnSubmit, submitOnEnter |-> submitOnEnter,
   disabled |-> disabled, handler |-> handler, input |-> input,
   loading |-> FALSE, buttonDisabled |-> disabled,
   handlerCalls |-> << >>, events |-> << >>, timers |-> 0, outcomes |-> << >>]

InitPrompt ==
  /\ ServiceIdle
  /\ resolver = NoResolverCall
  /\ normalizer = NoNormalizerCall
  /\ haversine = NoHaversineCall
  /\ weather = NoWeather
  /\ forecast = NoForecast
  /\ display = NoDisplay
  /\ llm = NoLLMCall
  /\ textLog = NoTextLog
  /\ chat = NoChat
  /\ prompt \in {ConnectedPrompt(v, c, e, d, h, [value |-> "", isValid |-> TRUE]) :
                   v \in {NoAttribute, Attribute(<< >>),
                          Attribute(<<"f", "a", "l", "s", "e">>)},
                   c \in BOOLEAN, e \in BOOLEAN, d \in BOOLEAN,
                   h \in {"none", "returns", "throws"}}

\* the user edits the input, which reports the change
ChangeInput ==
  /\ \E input \in PromptInputs :
       /\ input # prompt.input
       /\ prompt' = updateSubmitButton([prompt EXCEPT !.input = input], input.isValid)
  /\ UNCHANGED <<service, resolver, normalizer, haversine, weather, forecast, display, llm, textLog, chat>>

\* a click on the button, which a disabled button does not report
ClickButton ==
  /\ Len(prompt.outcomes) < MaxSubmits
  /\ ~prompt.buttonDisabled
  /\ \E v \in BOOLEAN : prompt' = handleSubmit(prompt, v)
  /\ UNCHANGED <<service, resolver, normalizer, haversine, weather, forecast, display, llm, textLog, chat>>

\* Enter without Shift in the input, listened to with submit-on-enter
PressEnter ==
  /\ Len(prompt.outcomes) < MaxSubmits
  /\ prompt.submitOnEnter
  /\ \E v \in BOOLEAN : prompt' = handleSubmit(prompt, v)
  /\ UNCHANGED <<service, resolver, normalizer, haversine, weather, forecast, display, llm, textLog, chat>>

\* one of the 200 ms timers runs setLoading(false)
LoadingTimer ==
  /\ prompt.timers > 0
  /\ prompt' = [setLoading(prompt, FALSE) EXCEPT !.timers = @ - 1]
  /\ UNCHANGED <<service, resolver, normalizer, haversine, weather, forecast, display, llm, textLog, chat>>

NextPrompt == ChangeInput \/ ClickButton \/ PressEnter \/ LoadingTimer

SpecPrompt == InitPrompt /\ [][NextPrompt]_vars

(* ------------------------------ claims --------------------------------- *)

Requested == {cities[i] : i \in 1..Len(cities)}

\* the entry a city has when nothing was stored for it
IsDefaultEntry(entry, city) == entry = [city |-> city, temperature |-> Null]

\* the call has returned after a payload was parsed
Parsed == pc = "done" /\ jsonStatus = "parsed"

\* the parsed payload carries a list of stations
HasList == Parsed /\ observations.isObject /\ observations.features.defined

StationList == observations.features.list

\* C1: whatever cities were requested and whatever the network call did, the
\* returned record has an entry for each of Lisboa, Porto and Coimbra, and the
\* entry under key k has city = k.
C1_Totality ==
  pc = "done" =>
    /\ DOMAIN result = CityNames
    /\ \A k \in CityNames : result[k].city = k

\* a city requested twice, another one left out, a value stored
C1_Witness ==
  /\ Parsed
  /\ Len(cities) = 2
  /\ cities[1] = cities[2]
  /\ result[cities[1]].temperature # Null

\* C2: the promise returned by fetchCurrentTemps is never rejected; once the
\* call is over it is fulfilled, whatever the fetch collaborator did.
C2_NeverRejects ==
  /\ outcome # "rejected"
  /\ pc = "done" => outcome = "fulfilled"

\* fulfilled although a requested city met a station without geometry
C2_Witness ==
  /\ HasList
  /\ outcome = "fulfilled"
  /\ cities # << >>
  /\ \E i \in 1..Len(StationList) : ~StationList[i].geometry.defined

\* the top-level fetch failed
FetchFailed ==
  fetchStatus \in {"rejected", "notOk"} \/ jsonStatus = "rejected"

\* C3: if fetch rejects, the response is not ok or parsing the body rejects,
\* every entry of the result is {city, temperature: null} without observedAt,
\* whichever cities were requested.
C3_FetchFailureLeavesDefaults ==
  (pc = "done" /\ FetchFailed) =>
    \A k \in CityNames : IsDefaultEntry(result[k], k)

\* a response that is not ok, with cities requested
C3_Witness ==
  /\ pc = "done"
  /\ fetchStatus = "notOk"
  /\ Len(cities) = 2
  /\ \A k \in CityNames : IsDefaultEntry(result[k], k)

\* C4: a city that was not requested keeps the entry {city, temperature: null}
\* without observedAt, even when the payload has valid stations for it.
C4_UnrequestedKeepDefault ==
  pc = "done" =>
    \A k \in CityNames \ Requested : IsDefaultEntry(result[k], k)

\* Porto alone is requested and gets a value; Lisboa, with a valid station
\* at its coordinates, keeps the default
C4_Witness ==
  /\ HasList
  /\ cities = <<"Porto">>
  /\ result["Porto"].temperature # Null
  /\ \E i \in 1..Len(StationList) : StationList[i] = StationX
  /\ IsDefaultEntry(result["Lisboa"], "Lisboa")

\* the raw measurement is the sentinel -99.0 or a number that is not finite
InvalidMeasurement(v) == v = Num(-99 * Milli) \/ v.t \in {"nan", "inf"}

\* the raw measurement normalizes to a finite number other than -99.0
ValidMeasurement(v) ==
  LET m == toNumber(v) IN m.t = "number" /\ m # Num(-99 * Milli)

\* the feature has geometry with two coordinates, and properties
WellFormed(station) ==
  /\ station.geometry.defined
  /\ Len(station.geometry.coordinates) = 2
  /\ station.properties.defined

\* distance from a city to a well-formed station, in 1e-4 km
DistanceTo(city, station) ==
  calculateDistance(Num(CITY_COORDINATES[city][1]), Num(CITY_COORDINATES[city][2]),
                    Num(station.geometry.coordinates[2]),
                    Num(station.geometry.coordinates[1])).n

\* findClosestStation has returned a station
Returned ==
  /\ resolver.state = "returned"
  /\ ~resolver.returned.threw
  /\ resolver.returned.closestStation # 0

ReturnedStation == resolver.observations[resolver.returned.closestStation]

\* a candidate of the call with a valid measurement and a distance
ValidCandidate(j) ==
  /\ WellFormed(resolver.observations[j])
  /\ ValidMeasurement(resolver.observations[j].properties.temperatura)

\* C5: a candidate whose raw measurement is the sentinel -99.0 or a number
\* that is not finite is never returned by findClosestStation, whatever its
\* distance and position; with X (valid, at Lisboa), Y (sentinel, at Lisboa)
\* and Z (valid, farther) in any order, X is returned for Lisboa.
C5_SentinelExclusion ==
  /\ Returned => ~InvalidMeasurement(ReturnedStation.properties.temperatura)
  /\ (/\ resolver.state = "returned"
      /\ resolver.city = "Lisboa"
      /\ Len(resolver.observations) = 3
      /\ {resolver.observations[i] : i \in 1..3} = {StationX, StationY, StationZ}) =>
       (Returned /\ ReturnedStation = StationX)

\* the sentinel station Y comes first, at distance 0, and X is returned
C5_Witness ==
  /\ Returned
  /\ resolver.city = "Lisboa"
  /\ resolver.observations = <<StationY, StationZ, StationX>>
  /\ DistanceTo("Lisboa", StationY) = 0
  /\ ReturnedStation = StationX

\* C6: the station findClosestStation returns is at a distance less than or
\* equal to that of every candidate with a valid measurement, in whatever
\* order the list is; when such a candidate exists a station is returned.
C6_NearestSelection ==
  (resolver.state = "returned" /\ ~resolver.returned.threw) =>
    \A j \in 1..Len(resolver.observations) :
      ValidCandidate(j) =>
        /\ Returned
        /\ WellFormed(ReturnedStation)
        /\ DistanceTo(resolver.city, ReturnedStation)
             <= DistanceTo(resolver.city, resolver.observations[j])

\* the farther station comes first, the nearer one is returned
C6_Witness ==
  /\ Returned
  /\ resolver.city = "Lisboa"
  /\ resolver.observations = <<StationZ, StationX>>
  /\ DistanceTo("Lisboa", StationX) < DistanceTo("Lisboa", StationZ)
  /\ ReturnedStation = StationX

\* C7: no valid candidate at the same distance as the returned station
\* appears before it in the list: among equal distances the first wins.
C7_TieBreakFirst ==
  Returned =>
    \A j \in 1..Len(resolver.observations) :
      (/\ j # resolver.returned.closestStation
       /\ ValidCandidate(j)
       /\ DistanceTo(resolver.city, resolver.observations[j])
            = DistanceTo(resolver.city, ReturnedStation)) =>
        resolver.returned.closestStation < j

\* two valid stations equally far north and south of Lisboa, and a nearer
\* one missing: the first of the two is returned
C7_Witness ==
  /\ Returned
  /\ resolver.city = "Lisboa"
  /\ resolver.observations = <<StationSouth, StationZ>>
  /\ DistanceTo("Lisboa", StationSouth) = DistanceTo("Lisboa", StationZ)
  /\ resolver.returned.closestStation = 1

\* what findClosestStation gives for a city on the fetched list
Closest(city) == findClosestStation(city, observations.features)

\* every candidate is a well-formed station whose measurement is the sentinel
\* or a number that is not finite (the empty list included)
AllInvalid ==
  \A i \in 1..Len(StationList) :
    /\ WellFormed(StationList[i])
    /\ InvalidMeasurement(StationList[i].properties.temperatura)

\* C8: when the candidate list is empty or every candidate carries the
\* sentinel or a non-finite measurement, findClosestStation returns null
\* without throwing and each requested city keeps {city, temperature: null}
\* without observedAt.
C8_NoValidStation ==
  (HasList /\ AllInvalid) =>
    /\ \A city \in CityNames :
         Closest(city) = [threw |-> FALSE, closestStation |-> 0]
    /\ \A k \in Requested : IsDefaultEntry(result[k], k)

\* a sentinel station and a NaN station, two cities requested
C8_Witness ==
  /\ HasList
  /\ AllInvalid
  /\ Len(cities) = 2
  /\ \E i \in 1..Len(StationList) : StationList[i].properties.temperatura = Sentinel
  /\ \E i \in 1..Len(StationList) : StationList[i].properties.temperatura = NaN
  /\ \A k \in Requested : IsDefaultEntry(result[k], k)

\* C9: an entry whose temperature is null has no observedAt field.
C9_NullHasNoObservedAt ==
  \A k \in CityNames :
    result[k].temperature = Null => "observedAt" \notin DOMAIN result[k]

\* a station was selected for a requested city, its measurement normalized
\* to nothing storable, and the entry has no observedAt
C9_Witness ==
  /\ HasList
  /\ \E k \in Requested :
       /\ ~Closest(k).threw
       /\ Closest(k).closestStation # 0
       /\ result[k].temperature = Null
       /\ "observedAt" \notin DOMAIN result[k]

\* C10: every non-null temperature of the result is the normalized
\* measurement of the one station findClosestStation selected for that city,
\* with that station's time as observedAt; it is finite and not the sentinel.
C10_ValueFromSelectedStation ==
  pc = "done" =>
    \A k \in CityNames :
      result[k].temperature # Null =>
        /\ HasList
        /\ IsFiniteNumber(result[k].temperature)
        /\ result[k].temperature # Num(-99 * Milli)
        /\ LET r == Closest(k)
           IN /\ ~r.threw
              /\ r.closestStation # 0
              /\ result[k] =
                   [city |-> k,
                    temperature |->
                      toNumber(StationList[r.closestStation].properties.temperatura),
                    observedAt |-> StationList[r.closestStation].properties.time]

\* Porto gets 28.6 and the afternoon time from the station at Porto, whose
\* measurement is a string, in a list with a second station of another time
C10_Witness ==
  /\ HasList
  /\ Len(StationList) >= 2
  /\ "Porto" \in Requested
  /\ result["Porto"].temperature = Num(28600)
  /\ result["Porto"].observedAt = Afternoon
  /\ \E i \in 1..Len(StationList) :
       WellFormed(StationList[i]) /\ StationList[i].properties.time = Noon

\* the entry of a supported city k when k alone is resolved on the fetched
\* payload: the default one when the resolution throws, finds no station or
\* finds one whose measurement does not normalize to a storable value
EntryAlone(k) ==
  LET r == IF observations.isObject THEN Closest(k)
           ELSE [threw |-> TRUE, closestStation |-> 0]
  IN IF r.threw \/ r.closestStation = 0 THEN [city |-> k, temperature |-> Null]
     ELSE LET st == StationList[r.closestStation]
              m == toNumber(st.properties.temperatura)
          IN IF m = Null \/ m = Num(-99 * Milli)
             THEN [city |-> k, temperature |-> Null]
             ELSE [city |-> k, temperature |-> m, observedAt |-> st.properties.time]

\* C11: when resolving one requested city throws, only its entry is left at
\* null: the loop goes on, and every other requested city has the entry it
\* would have if it were resolved alone.
C11_PerCityIsolation ==
  Parsed =>
    /\ DOMAIN result = CityNames
    /\ \A k \in Requested \cap CityNames : result[k] = EntryAlone(k)

\* the unsupported name comes first and throws, Lisboa after it gets a value
C11_Witness ==
  /\ Parsed
  /\ cities = <<UnsupportedCity, "Lisboa">>
  /\ findClosestStation(UnsupportedCity, observations.features).threw
  /\ result["Lisboa"].temperature # Null

NormalizerReturned == normalizer.state \in {"returned", "renormalized"}

\* C12: toNumber returns a finite number or null: a number input comes back
\* unchanged exactly when it is finite, a string input gives its numeric
\* parse exactly when the parse is finite, any other type gives null.
C12_NormalizerContract ==
  NormalizerReturned =>
    LET n == normalizer.input
        r == normalizer.returned
    IN /\ r.t \in {"number", "null"}
       /\ n.t \in {"number", "nan", "inf"} =>
            /\ (n.t = "number") <=> (r = n)
            /\ (n.t # "number") => (r = Null)
       /\ n.t = "string" =>
            /\ (StringToNumber(n.s).t = "number") <=> (r = StringToNumber(n.s))
            /\ (StringToNumber(n.s).t # "number") => (r = Null)
       /\ n.t \in {"object", "boolean", "null", "undefined"} => (r = Null)

\* the string "3.14" came back as the number 3.14
C12_Witness ==
  /\ NormalizerReturned
  /\ normalizer.input = Str(<<"3", ".", "1", "4">>)
  /\ normalizer.returned = Num(3140)

\* the characters are the text of a number: after trimming, an optionally
\* signed decimal literal or Infinity
IsNumericText(chars) ==
  /\ TrimLeft(chars) # << >>
  /\ StringToNumber(chars).t # "nan"

\* C13: toNumber never throws; it returns null for every input that is
\* neither a number nor the text of a number, the empty string and the
\* strings of whitespace included; for a finite number x, toNumber of
\* toNumber(x) is x.
C13_GarbageGivesNull ==
  LET n == normalizer.input
  IN /\ (NormalizerReturned /\ ~IsNumberType(n)
          /\ ~(n.t = "string" /\ IsNumericText(n.s))) =>
           normalizer.returned = Null
     /\ (normalizer.state = "renormalized" /\ IsFiniteNumber(n)) =>
           normalizer.again = n

\* C14: the distance from A to B is the distance from B to A, and it is
\* never negative.
C14_DistanceSymmetry ==
  haversine.state = "returned" =>
    /\ haversine.ab.t = "number"
    /\ haversine.ab = haversine.ba
    /\ ~LessThan(haversine.ab, Num(0))

\* Lisboa and Porto, which differ in latitude and in longitude
C14_Witness ==
  /\ haversine.state = "returned"
  /\ haversine.a = CITY_COORDINATES["Lisboa"]
  /\ haversine.b = CITY_COORDINATES["Porto"]
  /\ haversine.ab.n > 0
  /\ haversine.ba.n > 0

\* C15: the distance from a point to itself is 0, so nothing is closer to a
\* city than a station at the city's own coordinates.
C15_DistanceZeroAtIdentity ==
  haversine.state = "returned" =>
    /\ haversine.aa = Num(0)
    /\ ~LessThan(haversine.ab, haversine.aa)

\* Coimbra measured against itself and against another point
C15_Witness ==
  /\ haversine.state = "returned"
  /\ haversine.a = CITY_COORDINATES["Coimbra"]
  /\ haversine.b # haversine.a
  /\ haversine.aa = Num(0)
  /\ LessThan(haversine.aa, haversine.ab)

\* fetch() and, after an ok response, res.json() have settled
NetworkSettled ==
  \/ fetchStatus \in {"rejected", "notOk"}
  \/ fetchStatus = "ok" /\ jsonStatus \in {"rejected", "parsed"}

\* C16: a call issues exactly one request, to the observation endpoint with
\* cache 'no-store', whatever the number of requested cities; no city is
\* resolved before that request has settled, and once it has the resolution
\* of all cities is over in the same step.
C16_SingleFetch ==
  /\ pc # "idle" =>
       fetchCalls = <<[url |-> ObservationUrl, cache |-> "no-store"]>>
  /\ ~NetworkSettled => result = DefaultResult
  /\ NetworkSettled => pc = "done"

\* two cities were requested and resolved from the one request
C16_Witness ==
  /\ Parsed
  /\ Len(cities) = 2
  /\ cities[1] # cities[2]
  /\ Len(fetchCalls) = 1
  /\ \A i \in 1..2 : result[cities[i]].temperature # Null

\* C18: once the network call has settled, with success or with failure,
\* the promise of fetchCurrentTemps is resolved and every requested city
\* has a settled entry, a finite number or null; the promise is never
\* settled while the network call is pending.
C18_SettlesWithNetwork ==
  /\ NetworkSettled =>
       /\ outcome = "fulfilled"
       /\ \A k \in Requested :
            result[k].temperature.t \in {"number", "null"}
  /\ (pc # "idle" /\ ~NetworkSettled) => outcome = "pending"

\* one call settled by a failure of the network, with every entry null
C18_Witness ==
  /\ pc = "done"
  /\ fetchStatus = "rejected"
  /\ outcome = "fulfilled"
  /\ Len(cities) = 2
  /\ \A k \in Requested : result[k].temperature = Null

\* a refresh has written the display since the element was last rendered
RefreshedSinceRender == weather.last.render = weather.renders

SomeCityShown == \E city \in CityNames : IsFiniteNumber(weather.shown[city])

C20_ErrorState ==
  (/\ weather.rendered
   /\ RefreshedSinceRender
   /\ weather.last.net \in {"rejected", "notOk", "jsonRejected"}) =>
     weather.status = "Failed to fetch data"

ShowsNumber == display.state = "shown" /\ IsFiniteNumber(display.last)

\* round-half-away-from-zero of value * 10, counted in tenths
HalfAwayTimes10(k) ==
  IF k >= 0 THEN (k + 50) \div 100 ELSE 0 - ((50 - k) \div 100)

\* C21 as stated: the value shown is value * 10 rounded half away from
\* zero, over 10, for every finite value, negative ones included.
C21_RoundHalfAwayFromZero ==
  ShowsNumber =>
    display.el.dataValue =
      Attribute(NumberToString(Num(HalfAwayTimes10(display.last.n) * 100)))

\* C21 amended: the value shown is the number of tenths nearest to the
\* value, a value halfway between two tenths going to the upper one (up
\* toward plus infinity, also below zero); the text is that number, a
\* blank and the unit.
C21_RoundHalfUp ==
  ShowsNumber =>
    \E r \in -500..500 :
      /\ 100 * r - 50 <= display.last.n
      /\ display.last.n < 100 * r + 50
      /\ display.el.dataValue = Attribute(NumberToString(Num(100 * r)))
      /\ display.el.text = NumberToString(Num(100 * r)) \o <<" ">> \o display.unit

\* 21.234 is shown as 21.2
C21_Witness ==
  /\ ShowsNumber
  /\ display.last = Num(21234)
  /\ display.el.text = <<"2", "1", ".", "2", " ">> \o DefaultUnit
  /\ display.el.dataValue = Attribute(<<"2", "1", ".", "2">>)

\* C22: after any sequence of calls the displayed value element reflects
\* the last value only: without a finite value the text is the dash, the
\* aria-label 'sem dados' and there is no data-value; with one the text is
\* the rounded value and the unit, and data-value the rounded value.
C22_ShowsLastValueOnly ==
  display.state = "shown" =>
    IF IsFiniteNumber(display.last)
    THEN /\ display.el.dataValue.present
         /\ display.el.text = display.el.dataValue.chars \o <<" ">> \o display.unit
         /\ StringToNumber(display.el.dataValue.chars) = Rounded(display.last)
    ELSE /\ display.el.text = Dash
         /\ display.el.ariaLabel = Attribute(SemDados)
         /\ ~display.el.dataValue.present

\* an element that had a data-value was updated to null and has none left
C22_Witness ==
  /\ display.state = "shown"
  /\ display.hadDataValue
  /\ display.last = Null
  /\ display.el.text = Dash
  /\ ~display.el.dataValue.present

\* the completion API returned a non-empty content for the first choice
GotContent ==
  /\ llm.settled.kind = "resolved"
  /\ llm.settled.completion.defined
  /\ llm.settled.completion.hasChoices
  /\ llm.settled.completion.choices # << >>
  /\ llm.settled.completion.choices[1].hasMessage
  /\ llm.settled.completion.choices[1].content.t = "string"
  /\ llm.settled.completion.choices[1].content.text # ""

\* C23 as stated: callLLM never rejects; the response is {content, success
\* true} without error exactly when the API returned a non-empty content for
\* the first choice, and otherwise content '' and success false with a
\* non-empty error, 'Unknown error occurred' for a non-Error rejection.
C23_WellFormedResponse ==
  llm.state = "returned" =>
    /\ llm.promise = "fulfilled"
    /\ IF GotContent
       THEN llm.response = [content |-> llm.settled.completion.choices[1].content.text,
                            success |-> TRUE, hasError |-> FALSE, error |-> ""]
       ELSE /\ llm.response.content = ""
            /\ ~llm.response.success
            /\ llm.response.hasError
            /\ llm.response.error # ""
            /\ (llm.settled.kind = "rejected" /\ ~llm.settled.error.isError) =>
                 llm.response.error = "Unknown error occurred"

\* the entries of type t ever appended for the handled message i
EntriesOfCall(i, t) ==
  {k \in DOMAIN chat.added :
     /\ chat.added[k].type = t
     /\ chat.added[k].id = IF t = "user" THEN chat.calls[i].userEntry
                           ELSE chat.calls[i].aiEntry}

\* C24: handleUserMessage never rejects; each handled message appends one
\* 'user' entry at once, invokes the handler once if there is one, and once
\* callLLM has settled appends exactly one 'ai' entry after the user entry.
C24_HandledMessage ==
  chat.state = "connected" =>
    /\ \A i \in DOMAIN chat.calls :
         /\ chat.calls[i].promise # "rejected"
         /\ Cardinality(EntriesOfCall(i, "user")) = 1
         /\ chat.calls[i].promise = "fulfilled" =>
              /\ Cardinality(EntriesOfCall(i, "ai")) = 1
              /\ \A u \in EntriesOfCall(i, "user"), a \in EntriesOfCall(i, "ai") : u < a
         /\ chat.calls[i].promise = "pending" => chat.calls[i].aiEntry = 0
    /\ Len(chat.handled) = IF chat.messageHandler = "none" THEN 0 ELSE Len(chat.calls)

\* the limit an element declares with its max-entries attribute, 0 for none
DeclaredLimit(attribute) ==
  IF attribute.present THEN DigitsValue(attribute.chars) ELSE 0

\* the n last entries of a data source, all of them when there are fewer
LastEntries(entries, n) ==
  IF Len(entries) > n THEN SubSeq(entries, Len(entries) - n + 1, Len(entries))
  ELSE entries

\* C25: a connected text-log, or a chat-ai, with a max-entries limit N > 0
\* displays at most N entries, the N most recently added ones in their order.
C25_MaxEntriesLimit ==
  /\ IF textLog.state = "none" THEN TRUE
     ELSE (textLog.connected /\ DeclaredLimit(textLog.maxEntries) > 0) =>
            /\ Len(textLog.shown) <= DeclaredLimit(textLog.maxEntries)
            /\ textLog.shown =
                 LastEntries(textLog.dataSource, DeclaredLimit(textLog.maxEntries))
  /\ IF chat.state = "none" THEN TRUE
     ELSE DeclaredLimit(chat.maxEntries) > 0 =>
            /\ Len(chat.log.shown) <= DeclaredLimit(chat.maxEntries)
            /\ chat.log.shown =
                 LastEntries(chat.log.dataSource, DeclaredLimit(chat.maxEntries))

\* C30: the 'ai' entries are appended in the order of the user messages they
\* answer: a message has its reply in the log only when every earlier message
\* has its own there, above it.
C30_RepliesInOrder ==
  chat.state = "connected" =>
    \A i, j \in DOMAIN chat.calls :
      (i < j /\ chat.calls[j].aiEntry # 0) =>
        /\ chat.calls[i].aiEntry # 0
        /\ chat.calls[i].aiEntry < chat.calls[j].aiEntry

\* a submit happens in the step
Submitted == Len(prompt'.outcomes) = Len(prompt.outcomes) + 1

\* what C26 says of one step
SubmissionStep ==
  /\ (Submitted /\ prompt.validate.present /\ ~prompt.input.isValid) =>
       /\ prompt'.handlerCalls = prompt.handlerCalls
       /\ prompt'.loading = prompt.loading
       /\ prompt'.buttonDisabled = prompt.buttonDisabled
       /\ prompt'.input = prompt.input
       /\ prompt'.events = prompt.events
       /\ prompt'.timers = prompt.timers
  /\ (Submitted /\ prompt'.outcomes[Len(prompt'.outcomes)] \in {"returned", "threw"}) =>
       /\ prompt'.handlerCalls = Append(prompt.handlerCalls, prompt.input.value)
       /\ prompt'.loading
       /\ prompt'.timers = prompt.timers + 1
  /\ prompt'.loading => prompt'.timers > 0
  /\ prompt'.timers < prompt.timers => ~prompt'.loading
  /\ Len(prompt'.handlerCalls) =
       Cardinality({k \in DOMAIN prompt'.outcomes :
                      prompt'.outcomes[k] \in {"returned", "threw"}})

\* C26: a submit with validation required and an invalid input calls no
\* handler, enters no loading state, leaves the input alone and dispatches
\* nothing; an accepted submit calls the handler exactly once with the input
\* value, and the loading state it enters always has its removal scheduled,
\* also when the handler threw, and is removed when the timer runs.
C26_SubmissionGuard == [][SubmissionStep]_vars

\* an invalid input was refused, a later submit was accepted, its handler
\* threw and the loading state is gone again
C26_Witness ==
  /\ prompt.state = "connected"
  /\ \E i, j \in DOMAIN prompt.outcomes :
       i < j /\ prompt.outcomes[i] = "refused" /\ prompt.outcomes[j] = "threw"
  /\ prompt.handlerCalls = <<"Hi">>
  /\ ~prompt.loading
  /\ prompt.timers = 0

\* some station of the payload has well-formed coordinates and a measurement
\* that normalizes to a finite number other than -99.0
SomeValidStation ==
  \E i \in 1..Len(StationList) :
    /\ WellFormed(StationList[i])
    /\ ValidMeasurement(StationList[i].properties.temperatura)

\* C27: when the payload has at least one station with well-formed
\* coordinates and a valid measurement, every requested city gets a non-null
\* temperature, whatever the other stations of the payload are.
C27_ValidStationGivesTemperature ==
  (HasList /\ SomeValidStation) =>
    \A k \in Requested : result[k].temperature # Null

\* the record a call for the city k alone returns for the same payload
RequestedAlone(k) ==
  ProcessCities([threw |-> FALSE, result |-> DefaultResult], <<k>>, 1, observations).result

\* C28: for a parsed payload, the entry of a requested city is the one a
\* request for that city alone gets from the same payload, whatever the
\* other requested cities, their order and their repetitions.
C28_EntryOfCityAndPayload ==
  Parsed => \A k \in Requested : result[k] = RequestedAlone(k)[k]

\* two cities are requested, the first one is left without temperature and
\* the second one gets one
C28_Witness ==
  /\ Parsed
  /\ Len(cities) = 2
  /\ cities[1] # cities[2]
  /\ result[cities[1]].temperature = Null
  /\ result[cities[2]].temperature # Null

\* C29: an older response never overwrites a newer one: the display written
\* since the last render is that of the refresh started last among those
\* that have completed, so that once all have completed it is that of the
\* refresh started last.
C29_LastStartedWins ==
  (weather.rendered /\ weather.last.refresh # 0
   /\ weather.last.render = weather.renders) =>
    \A i \in DOMAIN weather.refreshes :
      weather.refreshes[i] = "done" => i <= weather.last.refresh

====
